---- MODULE Spec2Model ----
(***************************************************************************)
(* LiquiDash: order / inventory reconciliation of the dashboard            *)
(* (src/src/App.tsx) and of the order form (src/unnamed/part_005).         *)
(*                                                                         *)
(* The React state of App is the state of the model: the collections       *)
(* clients, products and orders, the selected order, the open modal, the   *)
(* form state of CreateOrderModal / EditOrderModal and the local state of  *)
(* the OrderForm inside them.  One action is one event handler together    *)
(* with the effects React runs before the next event.                      *)
(*                                                                         *)
(* Amounts and quantities are whole numbers.  The text of an input field   *)
(* is the empty tuple (the empty string) or a one-element tuple holding    *)
(* the number the text parses to.                                          *)
(***************************************************************************)
EXTENDS Integers, Sequences, FiniteSets, TLC

VARIABLES
    clients,              \* App.tsx:1123 useState<Client[]>
    products,             \* useState<Product[]>
    orders,               \* useState<Order[]>, newest first
    now,                  \* the wall clock read by new Date() / Date.now()
    ui,                   \* which modal is open: "page" when none is
    alertTitle,           \* title of the open AlertModal, "" when closed
    selectedOrder,        \* useState<Order | null>
    createState,          \* CreateOrderModal orderState
    editState,            \* EditOrderModal orderState
    newItem,              \* OrderForm newItem
    basePricePerUnit,     \* OrderForm basePricePerUnit: <<>> for null, else <<price, quantity>>
    clientDataWithStats,  \* the value memoised by useMemo(..., [clients, orders])
    roundTrip,            \* history: the order the last operation created, with the
                          \* stock before it; <<>> after any other operation
    expenses,             \* useState<Expense[]>, newest first
    logs,                 \* useState<LogEntry[]>
    firestore,            \* the documents of the user's five Firestore collections
    exported,             \* the file the last "export all" downloaded, <<>> when none
    history,              \* history: the operations of this session that changed stock
                          \* or imported a file, oldest first
    report,               \* ReportsPage: dateFrom, dateTo and the memoised reportStats
    session,              \* the auth effect: the signed-in user (useState<User | null>
                          \* as a boolean), the sign-in callbacks awaiting their load and
                          \* the sets of five listeners registered and not ended
    exiting               \* the modal AnimatePresence keeps on screen for its exit
                          \* animation, with what its handlers captured; <<>> when none

vars == <<clients, products, orders, now, ui, alertTitle, selectedOrder,
          createState, editState, newItem, basePricePerUnit, clientDataWithStats,
          roundTrip, expenses, logs, firestore, exported, history, report,
          session, exiting>>

-----------------------------------------------------------------------------
(* Bounds of the model *)

MaxOrders == 2
MaxTime == 2
MaxItems == 2
MaxClients == 2

\* sign-ins of the run whose listeners have not ended
MaxSignIns == 2

(* Inputs a user types into the form *)
QtyTexts == {<<3>>}
PaidTexts == {<<5>>}
FeeTexts == {<<2>>}
DiscountTexts == {<<30>>}
ClientNames == {"bob"}

(* Texts at the edge of what the quantity and price fields of an order line take *)
EdgeQtyTexts == {<<0>>, <<-1>>}
EdgePriceTexts == {<<-5>>}

(* Texts typed into the Amount field of the expense modals, in cents *)
ExpenseAmountTexts == {<<2500>>}

(* Texts typed into the Current Stock field of the EditProductModal *)
ProductStockTexts == {<<>>, <<7>>}

(* Inputs of the AddStockModal: the amount to add or remove, and the total purchase *)
(* cost in cents                                                                   *)
StockAmounts == {-4, 0, 1, 7, 10}
PurchaseCosts == {0, 4000}

Null == <<>>

(* The snapshot loaded at sign-in (App.tsx:1166-1178) *)
LoadedProducts ==
    << [id |-> "p1", stock |-> 3, costPerUnit |-> 200, lastOrdered |-> 0,
        tiers |-> << [sizeLabel |-> "2u", quantity |-> 2, price |-> 18],
                     [sizeLabel |-> "1u", quantity |-> 1, price |-> 10] >>],
       [id |-> "p2", stock |-> 1, costPerUnit |-> 150, lastOrdered |-> 0,
        tiers |-> << [sizeLabel |-> "1u", quantity |-> 1, price |-> 4] >>] >>

\* the order collections the loaded snapshot may hold: none, or one unpaid order
LoadedOrders ==
    { <<>>,
      << [id |-> "ord-1", clientId |-> "c-0",
          items |-> << [productId |-> "p1", quantity |-> 1, price |-> 10, sizeLabel |-> "1u"] >>,
          total |-> 10, status |-> "Unpaid", amountPaid |-> 0, fees |-> 0, discount |-> 0] >> }

LoadedClients ==
    << [id |-> "c-0", displayId |-> 1, name |-> "ann", orders |-> 0, totalSpent |-> 0] >>

\* the product collections a later snapshot of the Firestore query may deliver: the
\* loaded one, or one in which another session has lowered the stock of the first
\* product
ServerProducts ==
    { LoadedProducts, [LoadedProducts EXCEPT ![1].stock = 1] }

-----------------------------------------------------------------------------
(* Helpers standing for JavaScript built-ins *)

\* Number(text) || 0
NumberOr0(t) == IF t = <<>> THEN 0 ELSE t[1]

\* String(n || '')
StringOrEmpty(n) == IF n = 0 THEN <<>> ELSE <<n>>

\* String(n)
Str(n) == <<n>>

\* Math.round(num / den) for den > 0: halves round towards +infinity
RoundDiv(num, den) == (2 * num + den) \div (2 * den)

\* { ...base, ...over }
Spread(base, over) ==
    [k \in (DOMAIN base) \cup (DOMAIN over) |->
        IF k \in DOMAIN over THEN over[k] ELSE base[k]]

\* array.reduce((sum, x) => sum + F(x), 0)
SumOf(s, F(_)) ==
    LET acc[i \in 0..Len(s)] == IF i = 0 THEN 0 ELSE acc[i - 1] + F(s[i])
    IN acc[Len(s)]

\* index of the first element satisfying P, 0 when there is none (array.find)
FindIdx(s, P(_)) ==
    LET hits == {i \in DOMAIN s : P(s[i])}
    IN IF hits = {} THEN 0 ELSE CHOOSE i \in hits : \A j \in hits : i <= j

\* array.map(f)
MapSeq(s, F(_)) == [i \in DOMAIN s |-> F(s[i])]

-----------------------------------------------------------------------------
(* Order totals (handleCreateOrder, EditOrderModal.handleSubmit, OrderForm) *)

ItemPrice(item) == item.price

ItemsTotal(items) == SumOf(items, ItemPrice)

\* OrderForm finalTotal
FinalTotal(form) ==
    ItemsTotal(form.items) + NumberOr0(form.fees) - NumberOr0(form.discount)

\* OrderStatus with a strict comparison: an order paid exactly is left Unpaid
OrderStatusStrict(amountPaid, total) == IF amountPaid > total THEN "Completed" ELSE "Unpaid"

\* amountPaid >= total ? 'Completed' : 'Unpaid'
OrderStatus(amountPaid, total) == IF amountPaid >= total THEN "Completed" ELSE "Unpaid"

\* CreateOrderModal / EditOrderModal getInitialState(null)
EmptyFormState ==
    [clientId |-> "", items |-> <<>>, amountPaid |-> <<>>, fees |-> <<>>, discount |-> <<>>]

\* EditOrderModal getInitialState(order)
FormStateOf(order) ==
    [clientId |-> order.clientId,
     items |-> order.items,
     amountPaid |-> StringOrEmpty(order.amountPaid),
     fees |-> StringOrEmpty(order.fees),
     discount |-> StringOrEmpty(order.discount)]

EmptyNewItem == [productId |-> "", selectedTierLabel |-> "", quantity |-> <<>>, price |-> <<>>]

\* OrderForm effect for isCreateForm: the amount paid follows the total while it
\* equals the total of the previous render
FollowTotal(old, new) ==
    IF NumberOr0(new.amountPaid) = FinalTotal(old)
    THEN [new EXCEPT !.amountPaid = Str(FinalTotal(new))]
    ELSE new

-----------------------------------------------------------------------------
(* Stock reconciliation *)

\* quantity of product pid over all items of a list
QtyOf(items, pid) ==
    LET q(item) == IF item.productId = pid THEN item.quantity ELSE 0
    IN SumOf(items, q)

\* handleCreateOrder: setProducts(prev => prev.map(...))
StockAfterCreate(prods, items, timestamp) ==
    LET upd(p) ==
            LET k == FindIdx(items, LAMBDA item : item.productId = p.id)
            IN IF k > 0
               THEN [p EXCEPT !.stock = p.stock - items[k].quantity,
                              !.lastOrdered = timestamp]
               ELSE p
    IN MapSeq(prods, upd)

\* handleEditOrder: stockChanges.set(id, (stockChanges.get(id) || 0) + sign * quantity)
\* for each item of the list in turn
AddChanges(changes, items, sign) ==
    LET acc[i \in 0..Len(items)] ==
            IF i = 0 THEN changes
            ELSE LET prev == acc[i - 1]
                     pid == items[i].productId
                     old == IF pid \in DOMAIN prev THEN prev[pid] ELSE 0
                 IN Spread(prev, pid :> (old + sign * items[i].quantity))
    IN acc[Len(items)]

\* StockAfterEdit consuming, like handleCreateOrder, the first updated line of each
\* product only
StockAfterEditFirstLine(prods, originalItems, updatedItems, timestamp) ==
    LET upd(p) ==
            LET k == FindIdx(updatedItems, LAMBDA item : item.productId = p.id)
                inOriginal == \E j \in DOMAIN originalItems : originalItems[j].productId = p.id
            IN IF k > 0 \/ inOriginal
               THEN [p EXCEPT !.stock = p.stock + QtyOf(originalItems, p.id)
                                          - (IF k > 0 THEN updatedItems[k].quantity ELSE 0),
                              !.lastOrdered = IF k > 0 THEN timestamp ELSE p.lastOrdered]
               ELSE p
    IN MapSeq(prods, upd)

\* StockAfterEdit without the quantities the original items return
StockAfterEditNoReturn(prods, originalItems, updatedItems, timestamp) ==
    LET stockChanges == AddChanges(<<>>, updatedItems, -1)
        updatedProductIds == {updatedItems[i].productId : i \in DOMAIN updatedItems}
        upd(p) ==
            LET shouldUpdateTimestamp == p.id \in updatedProductIds
            IN IF p.id \in DOMAIN stockChanges \/ shouldUpdateTimestamp
               THEN [p EXCEPT !.stock = p.stock + (IF p.id \in DOMAIN stockChanges
                                                   THEN stockChanges[p.id] ELSE 0),
                              !.lastOrdered = IF shouldUpdateTimestamp
                                              THEN timestamp ELSE p.lastOrdered]
               ELSE p
    IN MapSeq(prods, upd)

\* handleEditOrder: setProducts(prev => prev.map(...))
StockAfterEdit(prods, originalItems, updatedItems, timestamp) ==
    LET stockChanges == AddChanges(AddChanges(<<>>, originalItems, 1), updatedItems, -1)
        updatedProductIds == {updatedItems[i].productId : i \in DOMAIN updatedItems}
        upd(p) ==
            LET shouldUpdateTimestamp == p.id \in updatedProductIds
            IN IF p.id \in DOMAIN stockChanges \/ shouldUpdateTimestamp
               THEN [p EXCEPT !.stock = p.stock + (IF p.id \in DOMAIN stockChanges
                                                   THEN stockChanges[p.id] ELSE 0),
                              !.lastOrdered = IF shouldUpdateTimestamp
                                              THEN timestamp ELSE p.lastOrdered]
               ELSE p
    IN MapSeq(prods, upd)

\* the stock column of the product table
StockOf(prods) == [i \in DOMAIN prods |-> prods[i].stock]

\* StockAfterDelete returning the quantity of every line of the product
StockAfterDeleteAllLines(prods, items) ==
    MapSeq(prods, LAMBDA p : [p EXCEPT !.stock = p.stock + QtyOf(items, p.id)])

\* handleDeleteOrder: setProducts(prev => prev.map(...))
StockAfterDelete(prods, items) ==
    LET upd(p) ==
            LET k == FindIdx(items, LAMBDA item : item.productId = p.id)
            IN IF k > 0
               THEN [p EXCEPT !.stock = p.stock + items[k].quantity]
               ELSE p
    IN MapSeq(prods, upd)

-----------------------------------------------------------------------------
(* Client statistics *)

\* ClientStats with the spread the other way round: the fields stored on the client
\* win over the computed ones
ClientStatsStored(cs, os) ==
    LET stats(client) ==
            LET clientOrders == SelectSeq(os, LAMBDA o : o.clientId = client.id)
                totalSpent == SumOf(clientOrders, LAMBDA o : o.total)
                totalPaid == SumOf(clientOrders, LAMBDA o : o.amountPaid)
                totalDiscounts == SumOf(clientOrders, LAMBDA o : o.discount)
            IN Spread([orders |-> Len(clientOrders),
                       totalSpent |-> totalSpent,
                       balance |-> totalSpent - totalPaid,
                       totalDiscounts |-> totalDiscounts], client)
    IN MapSeq(cs, stats)

\* clientDataWithStats: clients.map(client => ({ ...client, orders, totalSpent, balance, totalDiscounts }))
ClientStats(cs, os) ==
    LET stats(client) ==
            LET clientOrders == SelectSeq(os, LAMBDA o : o.clientId = client.id)
                totalSpent == SumOf(clientOrders, LAMBDA o : o.total)
                totalPaid == SumOf(clientOrders, LAMBDA o : o.amountPaid)
                totalDiscounts == SumOf(clientOrders, LAMBDA o : o.discount)
            IN Spread(client, [orders |-> Len(clientOrders),
                               totalSpent |-> totalSpent,
                               balance |-> totalSpent - totalPaid,
                               totalDiscounts |-> totalDiscounts])
    IN MapSeq(cs, stats)

-----------------------------------------------------------------------------
(* Reports (ReportsPage.filteredData, ReportsPage.reportStats) *)

\* useState(''): an empty date input; a date is the number of its day, which orders
\* the ISO strings the way the string comparison of the code does
NoDate == 0

\* the values the two date inputs take
Dates == {NoDate, 1, 2, 3}

\* the body of both filters: if (dateFrom && x.date < dateFrom) return false;
\* if (dateTo && x.date > dateTo) return false; return true
InWindow(x, dateFrom, dateTo) ==
    IF dateFrom # NoDate /\ x.date < dateFrom THEN FALSE
    ELSE IF dateTo # NoDate /\ x.date > dateTo THEN FALSE
    ELSE TRUE

filteredData(os, es, dateFrom, dateTo) ==
    [orders |-> SelectSeq(os, LAMBDA o : InWindow(o, dateFrom, dateTo)),
     expenses |-> SelectSeq(es, LAMBDA e : InWindow(e, dateFrom, dateTo))]

\* the cost of a line taken as the unit cost of its product, whatever the quantity
ItemCostPerLine(item, prods) ==
    LET k == FindIdx(prods, LAMBDA p : p.id = item.productId)
    IN IF k > 0 THEN prods[k].costPerUnit ELSE 0

\* product ? item.quantity * product.costPerUnit : 0, with
\* product = products.find(p => p.id === item.productId)
ItemCost(item, prods) ==
    LET k == FindIdx(prods, LAMBDA p : p.id = item.productId)
    IN IF k > 0 THEN item.quantity * prods[k].costPerUnit ELSE 0

\* reportStats; avgOrderValue is kept as the exact fraction <<numerator, denominator>>
reportStats(filtered, prods) ==
    LET totalRevenue == SumOf(filtered.orders, LAMBDA o : o.total)
        totalCost == SumOf(filtered.orders,
                           LAMBDA o : SumOf(o.items, LAMBDA item : ItemCost(item, prods)))
        totalProfit == totalRevenue - totalCost
        totalExpenses == SumOf(filtered.expenses, LAMBDA e : e.amount)
        netIncome == totalProfit - totalExpenses
        orderCount == Len(filtered.orders)
        avgOrderValue == IF orderCount > 0 THEN <<totalRevenue, orderCount>> ELSE <<0, 1>>
    IN [totalRevenue |-> totalRevenue, totalProfit |-> totalProfit,
        totalExpenses |-> totalExpenses, netIncome |-> netIncome,
        orderCount |-> orderCount, avgOrderValue |-> avgOrderValue]

\* what ReportsPage holds after a render: its two dates and the two memoised values
ReportOf(os, prods, es, dateFrom, dateTo) ==
    [dateFrom |-> dateFrom, dateTo |-> dateTo,
     stats |-> reportStats(filteredData(os, es, dateFrom, dateTo), prods)]

\* useMemo(..., [clients, orders]) of App and the two useMemo of ReportsPage:
\* recomputed by the render that follows a change of a dependency
Rerender ==
    /\ clientDataWithStats' =
           IF clients' # clients \/ orders' # orders
           THEN ClientStats(clients', orders')
           ELSE clientDataWithStats
    /\ report' = ReportOf(orders', products', expenses', report.dateFrom, report.dateTo)

\* ModalWrapper: <AnimatePresence>{isOpen && (...)}</AnimatePresence> keeps a closed
\* modal, its buttons included, on screen until its exit animation ends; the animation
\* of a modal has ended by the time of any event other than a further click on the
\* button that closed it.  The model follows the exit of the order confirmation and of
\* the order edit modal.
ExitDone == exiting' = Null


-----------------------------------------------------------------------------
(* Firestore: the documents under users/{uid}.  A document is its id and its data; *)
(* a collection is kept in the order its documents were written.                    *)

Collections == {"clients", "products", "orders", "expenses", "logs"}

\* encrypt(text): btoa
Encrypt(text) == <<"base64", text>>

\* decrypt(text): atob
Decrypt(text) == text[2]

\* the number of documents of the five collections
DocCount(fs) ==
    Len(fs.clients) + Len(fs.products) + Len(fs.orders) + Len(fs.expenses) + Len(fs.logs)

\* doc(collection): a reference with an id no document has yet; k counts the
\* references made in one batch
NewDocId(fs, k) == "auto-" \o ToString(DocCount(fs) + k)

\* the record a query hands to the App: { ...doc.data(), id: doc.id }
DocRecord(d) == Spread(d.data, [id |-> d.id])

\* getClients / onClientsChange: the same with the name decrypted
ClientRecord(d) == Spread(d.data, [id |-> d.id, name |-> Decrypt(d.data.name)])

\* addLog writing every entry to one and the same document
WithLogOverwriting(fs, action, timestamp) ==
    [fs EXCEPT !.logs =
        <<[id |-> "auto-0",
           data |-> [timestamp |-> <<"Timestamp", timestamp>>, action |-> action]]>>]

\* FirebaseService.addLog: setDoc(docRef, { ...log, timestamp: Timestamp.now() })
WithLog(fs, action, timestamp) ==
    [fs EXCEPT !.logs =
        Append(@, [id |-> NewDocId(fs, 1),
                   data |-> [timestamp |-> <<"Timestamp", timestamp>>, action |-> action]])]

\* the documents behind the records loaded at sign-in
LoadedFirestore(cs, ps, os) ==
    [clients |-> [i \in DOMAIN cs |->
                     [id |-> cs[i].id, data |-> [cs[i] EXCEPT !.name = Encrypt(@)]]],
     products |-> [i \in DOMAIN ps |-> [id |-> ps[i].id, data |-> ps[i]]],
     orders |-> [i \in DOMAIN os |-> [id |-> os[i].id, data |-> os[i]]],
     expenses |-> <<>>,
     logs |-> <<>>]

-----------------------------------------------------------------------------
(* State after sign-in: the loaded snapshot, no modal open *)

Init ==
    /\ clients = LoadedClients
    /\ products = LoadedProducts
    /\ orders \in LoadedOrders
    /\ now = 0
    /\ ui = "page"
    /\ alertTitle = ""
    /\ selectedOrder = Null
    /\ createState = EmptyFormState
    /\ editState = EmptyFormState
    /\ newItem = EmptyNewItem
    /\ basePricePerUnit = Null
    /\ clientDataWithStats = ClientStats(clients, orders)
    /\ roundTrip = Null
    /\ expenses = <<>>
    /\ logs = <<>>
    /\ firestore = LoadedFirestore(clients, products, orders)
    /\ exported = Null
    /\ history = <<>>
    /\ report = ReportOf(orders, products, expenses, NoDate, NoDate)
    /\ session = [user |-> TRUE, loads |-> 0, listeners |-> 1]
    /\ exiting = Null

\* the collections a signed-in ReportsPage is handed: orders of three days, the second
\* with a line of a product that is not in the collection, and expenses of the last two
ReportProducts ==
    << [id |-> "p1", stock |-> 3, costPerUnit |-> 20, lastOrdered |-> 0,
        tiers |-> << [sizeLabel |-> "1u", quantity |-> 1, price |-> 30] >>],
       [id |-> "p2", stock |-> 1, costPerUnit |-> 5, lastOrdered |-> 0,
        tiers |-> << [sizeLabel |-> "1u", quantity |-> 1, price |-> 10] >>] >>

ReportOrder(n, date, items, total) ==
    [id |-> "ord-" \o ToString(n), clientId |-> "c-0", date |-> date, items |-> items,
     total |-> total, status |-> "Unpaid", amountPaid |-> 0, fees |-> 0, discount |-> 0]

ReportOrders ==
    LET first == ReportOrder(1, 1, << [productId |-> "p1", quantity |-> 3, price |-> 100,
                                       sizeLabel |-> "custom"] >>, 100)
        second == ReportOrder(2, 2, << [productId |-> "p9", quantity |-> 2, price |-> 40,
                                        sizeLabel |-> "1u"],
                                       [productId |-> "p2", quantity |-> 1, price |-> 10,
                                        sizeLabel |-> "1u"] >>, 50)
        third == ReportOrder(3, 3, << [productId |-> "p1", quantity |-> 1, price |-> 30,
                                       sizeLabel |-> "1u"] >>, 30)
    IN {<<>>, <<first>>, <<second, first>>, <<third, second, first>>}

ReportExpenses ==
    LET first == [id |-> "exp-2", date |-> 2, amount |-> 10, category |-> "Supplies"]
        second == [id |-> "exp-3", date |-> 3, amount |-> 7, category |-> "Supplies"]
    IN {<<>>, <<first>>, <<second, first>>}

\* State after sign-in with the reports page shown
InitReports ==
    /\ clients = LoadedClients
    /\ products = ReportProducts
    /\ orders \in ReportOrders
    /\ now = 0
    /\ ui = "page"
    /\ alertTitle = ""
    /\ selectedOrder = Null
    /\ createState = EmptyFormState
    /\ editState = EmptyFormState
    /\ newItem = EmptyNewItem
    /\ basePricePerUnit = Null
    /\ clientDataWithStats = ClientStats(clients, orders)
    /\ roundTrip = Null
    /\ expenses \in ReportExpenses
    /\ logs = <<>>
    /\ firestore = [LoadedFirestore(clients, products, orders) EXCEPT !.expenses = expenses]
    /\ exported = Null
    /\ history = <<>>
    /\ report = ReportOf(orders, products, expenses, NoDate, NoDate)
    /\ session = [user |-> TRUE, loads |-> 0, listeners |-> 1]
    /\ exiting = Null

\* A later point of a session that created two orders and deleted the first: the
\* order collection holds the second order alone
SecondOrderAlone ==
    << [id |-> "ord-2", clientId |-> "c-0",
        items |-> << [productId |-> "p1", quantity |-> 1, price |-> 10, sizeLabel |-> "1u"] >>,
        total |-> 10, status |-> "Unpaid", amountPaid |-> 0, fees |-> 0, discount |-> 0] >>

InitSecondOrder ==
    /\ clients = LoadedClients
    /\ products = LoadedProducts
    /\ orders = SecondOrderAlone
    /\ now = 0
    /\ ui = "page"
    /\ alertTitle = ""
    /\ selectedOrder = Null
    /\ createState = EmptyFormState
    /\ editState = EmptyFormState
    /\ newItem = EmptyNewItem
    /\ basePricePerUnit = Null
    /\ clientDataWithStats = ClientStats(clients, orders)
    /\ roundTrip = Null
    /\ expenses = <<>>
    /\ logs = <<>>
    /\ firestore = LoadedFirestore(clients, products, <<>>)
    /\ exported = Null
    /\ history = <<>>
    /\ report = ReportOf(orders, products, expenses, NoDate, NoDate)
    /\ session = [user |-> TRUE, loads |-> 0, listeners |-> 1]
    /\ exiting = Null

\* no modal covers the page
OnPage == ui = "page" /\ alertTitle = ""

\* an OrderForm is on screen and no alert covers it
FormOpen == ui \in {"create", "edit"} /\ alertTitle = ""

ActiveForm == IF ui = "create" THEN createState ELSE editState

\* onChange(newState): setOrderState of the modal that holds the form, followed in
\* the create form by the effect that keeps the amount paid equal to the total
SetForm(f) ==
    IF ui = "create"
    THEN createState' = FollowTotal(createState, f) /\ UNCHANGED editState
    ELSE editState' = f /\ UNCHANGED createState

\* showAlert(title, message)
ShowAlert(title) == alertTitle' = title

\* products.find(p => p.id === pid)
ProductById(pid) == products[FindIdx(products, LAMBDA p : p.id = pid)]

\* every handler ends in addLog(...), which reads the clock for the entry's timestamp
Tick == now' = now + 1

\* addLog(action, details): FirebaseService.addLog writes the entry as a new document
\* of the logs collection, stamped by Timestamp.now(); the App's logs change only when
\* the listener delivers them
AddLog(action) ==
    /\ Tick
    /\ firestore' = WithLog(firestore, action, now')

-----------------------------------------------------------------------------
(* The order form *)

\* App: onNewOrder / setCreateOrderModalOpen(true); CreateOrderModal effect on isOpen
OpenCreateOrderModal ==
    /\ OnPage
    /\ Len(orders) < MaxOrders
    /\ now < MaxTime
    /\ ui' = "create"
    /\ createState' = EmptyFormState
    /\ newItem' = EmptyNewItem
    /\ basePricePerUnit' = Null
    /\ UNCHANGED <<clients, products, orders, now, alertTitle, selectedOrder, editState, roundTrip, expenses, logs, firestore, exported, history, session>>
    /\ Rerender
    /\ ExitDone

\* App.openEditOrderModal(order); EditOrderModal effect on [order]:
\* setOrderState(getInitialState(order)).  (The effect runs when another order object
\* is selected; re-opening the same unchanged object after a cancel, which would show
\* the cancelled form again, is not modelled.)
OpenEditOrderModal(i) ==
    /\ OnPage
    /\ i \in DOMAIN orders
    /\ now < MaxTime
    /\ selectedOrder' = orders[i]
    /\ editState' = FormStateOf(orders[i])
    /\ ui' = "edit"
    /\ newItem' = EmptyNewItem
    /\ basePricePerUnit' = Null
    /\ UNCHANGED <<clients, products, orders, now, alertTitle, createState, roundTrip, expenses, logs, firestore, exported, history, session>>
    /\ Rerender
    /\ ExitDone

\* ModalWrapper onClose (cancel, the X button, a click on the backdrop): the
\* OrderForm unmounts; a closed modal keeps a form state that its next opening
\* replaces, so the model drops it here
CloseOrderModal ==
    /\ FormOpen
    /\ ui' = "page"
    /\ createState' = EmptyFormState
    /\ editState' = EmptyFormState
    /\ newItem' = EmptyNewItem
    /\ basePricePerUnit' = Null
    /\ UNCHANGED <<clients, products, orders, now, alertTitle, selectedOrder, roundTrip, expenses, logs, firestore, exported, history, session>>
    /\ Rerender
    /\ ExitDone

\* AlertModal onClose
CloseAlert ==
    /\ alertTitle # ""
    /\ alertTitle' = ""
    /\ UNCHANGED <<clients, products, orders, now, ui, selectedOrder, createState, editState, newItem, basePricePerUnit, roundTrip, expenses, logs, firestore, exported, history, session>>
    /\ Rerender
    /\ ExitDone

\* client Select onChange
SelectClient(i) ==
    /\ FormOpen
    /\ i \in DOMAIN clients
    /\ SetForm([ActiveForm EXCEPT !.clientId = clients[i].id])
    /\ UNCHANGED <<clients, products, orders, now, ui, alertTitle, selectedOrder, newItem, basePricePerUnit, roundTrip, expenses, logs, firestore, exported, history, session>>
    /\ Rerender
    /\ ExitDone

\* handleProductChange taking the base price from the first tier of the product
handleProductChangeFirstTier(i) ==
    /\ FormOpen
    /\ i \in DOMAIN products
    /\ products[i].stock > 0
    /\ LET product == products[i]
           sortedTiers == SelectSeq(product.tiers, LAMBDA t : t.quantity > 0)
           smallest == CHOOSE k \in DOMAIN sortedTiers :
                           \A j \in DOMAIN sortedTiers :
                               \/ sortedTiers[k].quantity < sortedTiers[j].quantity
                               \/ (sortedTiers[k].quantity = sortedTiers[j].quantity /\ k <= j)
       IN /\ basePricePerUnit' =
                IF sortedTiers = <<>> THEN Null
                ELSE <<sortedTiers[1].price, sortedTiers[1].quantity>>
          /\ newItem' =
                IF product.tiers # <<>>
                THEN [productId |-> product.id,
                      selectedTierLabel |-> product.tiers[1].sizeLabel,
                      quantity |-> Str(product.tiers[1].quantity),
                      price |-> Str(product.tiers[1].price)]
                ELSE [productId |-> product.id, selectedTierLabel |-> "",
                      quantity |-> Str(1), price |-> <<>>]
    /\ UNCHANGED <<clients, products, orders, now, ui, alertTitle, selectedOrder, createState, editState, roundTrip, expenses, logs, firestore, exported, history, session>>
    /\ Rerender
    /\ ExitDone

\* OrderForm.handleProductChange: the Select lists the products with stock > 0
handleProductChange(i) ==
    /\ FormOpen
    /\ i \in DOMAIN products
    /\ products[i].stock > 0
    /\ LET product == products[i]
           sortedTiers == SelectSeq(product.tiers, LAMBDA t : t.quantity > 0)
           smallest == CHOOSE k \in DOMAIN sortedTiers :
                           \A j \in DOMAIN sortedTiers :
                               \/ sortedTiers[k].quantity < sortedTiers[j].quantity
                               \/ (sortedTiers[k].quantity = sortedTiers[j].quantity /\ k <= j)
       IN /\ basePricePerUnit' =
                IF sortedTiers = <<>> THEN Null
                ELSE <<sortedTiers[smallest].price, sortedTiers[smallest].quantity>>
          /\ newItem' =
                IF product.tiers # <<>>
                THEN [productId |-> product.id,
                      selectedTierLabel |-> product.tiers[1].sizeLabel,
                      quantity |-> Str(product.tiers[1].quantity),
                      price |-> Str(product.tiers[1].price)]
                ELSE [productId |-> product.id, selectedTierLabel |-> "",
                      quantity |-> Str(1), price |-> <<>>]
    /\ UNCHANGED <<clients, products, orders, now, ui, alertTitle, selectedOrder, createState, editState, roundTrip, expenses, logs, firestore, exported, history, session>>
    /\ Rerender
    /\ ExitDone

\* OrderForm.handleTierClick: the tier buttons of the selected product
handleTierClick(k) ==
    /\ FormOpen
    /\ newItem.productId # ""
    /\ k \in DOMAIN ProductById(newItem.productId).tiers
    /\ LET tier == ProductById(newItem.productId).tiers[k]
       IN newItem' = [newItem EXCEPT !.selectedTierLabel = tier.sizeLabel,
                                     !.quantity = Str(tier.quantity),
                                     !.price = Str(tier.price)]
    /\ UNCHANGED <<clients, products, orders, now, ui, alertTitle, selectedOrder, createState, editState, basePricePerUnit, roundTrip, expenses, logs, firestore, exported, history, session>>
    /\ Rerender
    /\ ExitDone

\* OrderForm.handleNewItemManualChange(field, fieldValue)
handleNewItemManualChange(field, fieldValue) ==
    /\ FormOpen
    /\ newItem' =
          IF fieldValue # <<>> /\ fieldValue[1] < 0
          THEN newItem
          ELSE IF field = "quantity" /\ basePricePerUnit # Null
          THEN [newItem EXCEPT
                   !.quantity = fieldValue,
                   !.price = IF fieldValue # <<>>
                             THEN Str(RoundDiv(fieldValue[1] * basePricePerUnit[1],
                                               basePricePerUnit[2]))
                             ELSE <<>>,
                   !.selectedTierLabel = "custom"]
          ELSE [newItem EXCEPT ![field] = fieldValue, !.selectedTierLabel = "custom"]
    /\ UNCHANGED <<clients, products, orders, now, ui, alertTitle, selectedOrder, createState, editState, basePricePerUnit, roundTrip, expenses, logs, firestore, exported, history, session>>
    /\ Rerender
    /\ ExitDone

\* the order line handleAddItem appends
NewLine(product) ==
    LET tier == FindIdx(product.tiers, LAMBDA t : t.sizeLabel = newItem.selectedTierLabel)
    IN [productId |-> newItem.productId,
        quantity |-> newItem.quantity[1],
        price |-> newItem.price[1],
        sizeLabel |-> IF tier > 0 THEN product.tiers[tier].sizeLabel ELSE "Custom"]

\* the stock check letting one unit more than the stock through
InsufficientStockLax(quantity, product) == quantity > product.stock + 1

\* OrderForm.handleAddItem: the stock check
InsufficientStock(quantity, product) == quantity > product.stock

\* OrderForm.handleAddItem
handleAddItem ==
    /\ FormOpen
    /\ Len(ActiveForm.items) < MaxItems
    /\ IF newItem.productId = "" \/ newItem.quantity = <<>> \/ newItem.price = <<>>
       THEN /\ ShowAlert("Invalid Item")
            /\ UNCHANGED <<createState, editState, newItem>>
       ELSE LET product == ProductById(newItem.productId)
            IN IF InsufficientStock(newItem.quantity[1], product)
               THEN /\ ShowAlert("Insufficient Stock")
                    /\ UNCHANGED <<createState, editState, newItem>>
               ELSE /\ SetForm([ActiveForm EXCEPT !.items = Append(@, NewLine(product))])
                    /\ newItem' = EmptyNewItem
                    /\ UNCHANGED alertTitle
    /\ UNCHANGED <<clients, products, orders, now, ui, selectedOrder, basePricePerUnit, roundTrip, expenses, logs, firestore, exported, history, session>>
    /\ Rerender
    /\ ExitDone

\* OrderForm.handleRemoveItem(index)
handleRemoveItem(index) ==
    /\ FormOpen
    /\ index \in DOMAIN ActiveForm.items
    /\ SetForm([ActiveForm EXCEPT !.items =
                   [j \in 1..(Len(@) - 1) |-> IF j < index THEN @[j] ELSE @[j + 1]]])
    /\ UNCHANGED <<clients, products, orders, now, ui, alertTitle, selectedOrder, newItem, basePricePerUnit, roundTrip, expenses, logs, firestore, exported, history, session>>
    /\ Rerender
    /\ ExitDone

\* payment Input onChange
ChangeAmountPaid(text) ==
    /\ FormOpen
    /\ SetForm([ActiveForm EXCEPT !.amountPaid = text])
    /\ UNCHANGED <<clients, products, orders, now, ui, alertTitle, selectedOrder, newItem, basePricePerUnit, roundTrip, expenses, logs, firestore, exported, history, session>>
    /\ Rerender
    /\ ExitDone

\* fees amount Input onChange
ChangeFees(text) ==
    /\ FormOpen
    /\ SetForm([ActiveForm EXCEPT !.fees = text])
    /\ UNCHANGED <<clients, products, orders, now, ui, alertTitle, selectedOrder, newItem, basePricePerUnit, roundTrip, expenses, logs, firestore, exported, history, session>>
    /\ Rerender
    /\ ExitDone

\* discount amount Input onChange
ChangeDiscount(text) ==
    /\ FormOpen
    /\ SetForm([ActiveForm EXCEPT !.discount = text])
    /\ UNCHANGED <<clients, products, orders, now, ui, alertTitle, selectedOrder, newItem, basePricePerUnit, roundTrip, expenses, logs, firestore, exported, history, session>>
    /\ Rerender
    /\ ExitDone

-----------------------------------------------------------------------------
(* Orders *)

\* NewOrder with a total that leaves the discount out
NewOrderNoDiscount(orderData, os) ==
    LET itemsTotal == ItemsTotal(orderData.items)
        total == itemsTotal + orderData.fees
    IN [id |-> "ord-" \o ToString(Len(os) + 1),
        clientId |-> orderData.clientId,
        items |-> orderData.items,
        total |-> total,
        status |-> OrderStatus(orderData.amountPaid, total),
        amountPaid |-> orderData.amountPaid,
        fees |-> orderData.fees,
        discount |-> orderData.discount]

\* handleCreateOrder: the order built from the submitted form
NewOrder(orderData, os) ==
    LET itemsTotal == ItemsTotal(orderData.items)
        total == itemsTotal + orderData.fees - orderData.discount
    IN [id |-> "ord-" \o ToString(Len(os) + 1),
        clientId |-> orderData.clientId,
        items |-> orderData.items,
        total |-> total,
        status |-> OrderStatus(orderData.amountPaid, total),
        amountPaid |-> orderData.amountPaid,
        fees |-> orderData.fees,
        discount |-> orderData.discount]

\* EditOrderModal.handleSubmit: the updatedOrder handed to onSave
UpdatedOrder(form) ==
    LET itemsTotal == ItemsTotal(form.items)
        feesAmount == NumberOr0(form.fees)
        discountAmount == NumberOr0(form.discount)
        total == itemsTotal + feesAmount - discountAmount
        parsedAmountPaid == NumberOr0(form.amountPaid)
    IN [clientId |-> form.clientId,
        items |-> form.items,
        total |-> total,
        status |-> OrderStatus(parsedAmountPaid, total),
        amountPaid |-> parsedAmountPaid,
        fees |-> feesAmount,
        discount |-> discountAmount]

\* handleMarkAsPaid: { ...o, amountPaid: o.total, status: 'Completed' }
PaidOrder(o) == [o EXCEPT !.amountPaid = o.total, !.status = "Completed"]

\* CreateOrderModal.handleSubmit: the form is refused
RejectCreateOrder ==
    /\ ui = "create"
    /\ alertTitle = ""
    /\ createState.clientId = "" \/ createState.items = <<>>
    /\ ShowAlert("Invalid Order")
    /\ UNCHANGED <<clients, products, orders, now, ui, selectedOrder, createState, editState, newItem, basePricePerUnit, roundTrip, expenses, logs, firestore, exported, history, session>>
    /\ Rerender
    /\ ExitDone

\* CreateOrderModal.handleSubmit, then App.handleCreateOrder(orderData)
handleCreateOrder ==
    /\ ui = "create"
    /\ alertTitle = ""
    /\ ~(createState.clientId = "" \/ createState.items = <<>>)
    /\ LET orderData == [clientId |-> createState.clientId,
                         items |-> createState.items,
                         amountPaid |-> NumberOr0(createState.amountPaid),
                         fees |-> NumberOr0(createState.fees),
                         discount |-> NumberOr0(createState.discount)]
           newOrder == NewOrder(orderData, orders)
       IN /\ AddLog("Order Created")
          /\ orders' = <<newOrder>> \o orders
          /\ products' = StockAfterCreate(products, newOrder.items, now')
    /\ ui' = "page"
    /\ createState' = EmptyFormState
    /\ newItem' = EmptyNewItem
    /\ basePricePerUnit' = Null
    /\ roundTrip' = [order |-> orders'[1], stock |-> StockOf(products), deleted |-> FALSE]
    /\ history' = Append(history, [op |-> "create", id |-> orders'[1].id,
                                    before |-> <<>>, after |-> orders'[1].items,
                                    stock |-> StockOf(products),
                                    stockAfter |-> StockOf(products')])
    /\ UNCHANGED <<clients, alertTitle, selectedOrder, editState, expenses, logs, exported, session>>
    /\ Rerender
    /\ ExitDone

\* EditOrderModal.handleSubmit, then App.handleEditOrder(originalOrder, updatedData)
handleEditOrder ==
    /\ ui = "edit"
    /\ alertTitle = ""
    /\ selectedOrder # Null
    /\ LET updatedData == UpdatedOrder(editState)
           replaced == Spread(updatedData, [id |-> selectedOrder.id])
       IN /\ AddLog("Order Updated")
          /\ products' = StockAfterEdit(products, selectedOrder.items, updatedData.items, now')
          /\ orders' = MapSeq(orders, LAMBDA o : IF o.id = selectedOrder.id THEN replaced ELSE o)
    /\ ui' = "page"
    /\ editState' = EmptyFormState
    /\ newItem' = EmptyNewItem
    /\ basePricePerUnit' = Null
    /\ roundTrip' = Null
    /\ history' = Append(history, [op |-> "edit", id |-> selectedOrder.id,
                                    before |-> selectedOrder.items,
                                    after |-> editState.items,
                                    stock |-> StockOf(products),
                                    stockAfter |-> StockOf(products')])
    /\ UNCHANGED <<clients, alertTitle, selectedOrder, createState, expenses, logs, exported, session>>
    /\ Rerender
    /\ exiting' = [modal |-> "edit", order |-> selectedOrder,
                   updatedOrder |-> UpdatedOrder(editState)]

\* EditOrderModal DeleteButton: App.openDeleteConfirmation('order')
openDeleteConfirmation ==
    /\ ui = "edit"
    /\ alertTitle = ""
    /\ ui' = "confirmDelete"
    /\ UNCHANGED <<clients, products, orders, now, alertTitle, selectedOrder, createState, editState, newItem, basePricePerUnit, roundTrip, expenses, logs, firestore, exported, history, session>>
    /\ Rerender
    /\ ExitDone

\* ConfirmationModal onClose: back to the edit modal under it
CloseConfirmation ==
    /\ ui = "confirmDelete"
    /\ ui' = "edit"
    /\ UNCHANGED <<clients, products, orders, now, alertTitle, selectedOrder, createState, editState, newItem, basePricePerUnit, roundTrip, expenses, logs, firestore, exported, history, session>>
    /\ Rerender
    /\ ExitDone

\* ConfirmationModal onConfirm: App.handleDeleteOrder
handleDeleteOrder ==
    /\ ui = "confirmDelete"
    /\ selectedOrder # Null
    /\ AddLog("Order Deleted")
    /\ products' = StockAfterDelete(products, selectedOrder.items)
    /\ orders' = SelectSeq(orders, LAMBDA o : o.id # selectedOrder.id)
    /\ ui' = "page"
    /\ editState' = EmptyFormState
    /\ newItem' = EmptyNewItem
    /\ basePricePerUnit' = Null
    /\ roundTrip' = IF roundTrip # Null /\ ~roundTrip.deleted /\ selectedOrder = roundTrip.order
                    THEN [roundTrip EXCEPT !.deleted = TRUE]
                    ELSE Null
    /\ history' = Append(history, [op |-> "delete", id |-> selectedOrder.id,
                                    before |-> selectedOrder.items, after |-> <<>>,
                                    stock |-> StockOf(products),
                                    stockAfter |-> StockOf(products')])
    /\ UNCHANGED <<clients, alertTitle, selectedOrder, createState, expenses, logs, exported, session>>
    /\ Rerender
    /\ exiting' = [modal |-> "confirm", order |-> selectedOrder]

\* A further click on Confirm while the ConfirmationModal fades out: the element kept
\* by AnimatePresence calls the handleDeleteOrder of the render that opened it, whose
\* selectedOrder is the order already deleted
handleDeleteOrderAgain ==
    /\ exiting # Null
    /\ exiting.modal = "confirm"
    /\ now < MaxTime
    /\ AddLog("Order Deleted")
    /\ products' = StockAfterDelete(products, exiting.order.items)
    /\ orders' = SelectSeq(orders, LAMBDA o : o.id # exiting.order.id)
    /\ roundTrip' = Null
    /\ history' = Append(history, [op |-> "delete", id |-> exiting.order.id,
                                    before |-> exiting.order.items, after |-> <<>>,
                                    stock |-> StockOf(products),
                                    stockAfter |-> StockOf(products')])
    /\ UNCHANGED <<clients, ui, alertTitle, selectedOrder, createState, editState, newItem, basePricePerUnit, expenses, logs, exported, exiting, session>>
    /\ Rerender

\* A further click on Save while the EditOrderModal fades out: the form kept by
\* AnimatePresence submits the order and the form state of the render that saved
handleEditOrderAgain ==
    /\ exiting # Null
    /\ exiting.modal = "edit"
    /\ now < MaxTime
    /\ LET replaced == Spread(exiting.updatedOrder, [id |-> exiting.order.id])
       IN /\ AddLog("Order Updated")
          /\ products' = StockAfterEdit(products, exiting.order.items,
                                        exiting.updatedOrder.items, now')
          /\ orders' = MapSeq(orders, LAMBDA o : IF o.id = exiting.order.id THEN replaced ELSE o)
    /\ roundTrip' = Null
    /\ history' = Append(history, [op |-> "edit", id |-> exiting.order.id,
                                    before |-> exiting.order.items,
                                    after |-> exiting.updatedOrder.items,
                                    stock |-> StockOf(products),
                                    stockAfter |-> StockOf(products')])
    /\ UNCHANGED <<clients, ui, alertTitle, selectedOrder, createState, editState, newItem, basePricePerUnit, expenses, logs, exported, exiting, session>>
    /\ Rerender

\* OrdersPage "Mark as paid" button (shown while balance > 0): App.handleMarkAsPaid(o.id)
handleMarkAsPaid(i) ==
    /\ OnPage
    /\ i \in DOMAIN orders
    /\ orders[i].total - orders[i].amountPaid > 0
    /\ now < MaxTime
    /\ AddLog("Order Marked as Paid")
    /\ orders' = MapSeq(orders, LAMBDA o : IF o.id = orders[i].id THEN PaidOrder(o) ELSE o)
    /\ roundTrip' = Null
    /\ UNCHANGED <<clients, products, ui, alertTitle, selectedOrder, createState, editState, newItem, basePricePerUnit, expenses, logs, exported, history, session>>
    /\ Rerender
    /\ ExitDone

-----------------------------------------------------------------------------
(* Clients *)

\* Math.max(0, ...clients.map(c => c.displayId))
MaxDisplayId(cs) ==
    LET ids == {cs[i].displayId : i \in DOMAIN cs} \cup {0}
    IN CHOOSE m \in ids : \A x \in ids : x <= m

\* CreateClientModal submit: App.handleCreateClient(clientData)
handleCreateClient(name) ==
    /\ OnPage
    /\ Len(clients) < MaxClients
    /\ now < MaxTime
    /\ AddLog("Client Created")
    /\ clients' = Append(clients, [id |-> "c-" \o ToString(now'),
                                   displayId |-> MaxDisplayId(clients) + 1,
                                   name |-> name,
                                   orders |-> 0,
                                   totalSpent |-> 0])
    /\ roundTrip' = Null
    /\ history' = Append(history, [op |-> "client created",
                                    id |-> clients'[Len(clients')].id,
                                    displayId |-> clients'[Len(clients')].displayId])
    /\ UNCHANGED <<products, orders, ui, alertTitle, selectedOrder, createState, editState, newItem, basePricePerUnit, expenses, logs, exported, session>>
    /\ Rerender
    /\ ExitDone

\* ClientsPage row click: App.openEditClientModal(client) with a row of
\* clientDataWithStats; EditClientModal submit: App.handleEditClient({ ...client, ...clientData })
handleEditClient(i, name) ==
    /\ OnPage
    /\ i \in DOMAIN clientDataWithStats
    /\ now < MaxTime
    /\ AddLog("Client Updated")
    /\ LET client == clientDataWithStats[i]
           updatedClient == Spread(client, [name |-> name])
       IN clients' = MapSeq(clients, LAMBDA c : IF c.id = updatedClient.id
                                                THEN updatedClient ELSE c)
    /\ roundTrip' = Null
    /\ UNCHANGED <<products, orders, ui, alertTitle, selectedOrder, createState, editState, newItem, basePricePerUnit, expenses, logs, exported, history, session>>
    /\ Rerender
    /\ ExitDone

\* the check for orders that lets every client be deleted
HasOrdersNever(client, os) == FALSE

\* handleDeleteClient: orders.filter(o => o.clientId === selectedClient.id).length > 0
HasOrders(client, os) == \E k \in DOMAIN os : os[k].clientId = client.id

\* ClientsPage row click, Delete in the EditClientModal and the confirmation, as one
\* step: App.handleDeleteClient with selectedClient the client of the row
handleDeleteClient(i) ==
    /\ OnPage
    /\ i \in DOMAIN clients
    /\ IF HasOrders(clients[i], orders)
       THEN /\ ShowAlert("Cannot Delete Client")
            /\ UNCHANGED <<clients, now, firestore, roundTrip, history>>
       ELSE /\ now < MaxTime
            /\ clients' = SelectSeq(clients, LAMBDA c : c.id # clients[i].id)
            /\ AddLog("Client Deleted")
            /\ roundTrip' = Null
            /\ history' = Append(history, [op |-> "client deleted",
                                            id |-> clients[i].id,
                                            displayId |-> clients[i].displayId])
            /\ UNCHANGED alertTitle
    /\ UNCHANGED <<products, orders, ui, selectedOrder, createState, editState, newItem, basePricePerUnit, expenses, logs, exported, session>>
    /\ Rerender
    /\ ExitDone

-----------------------------------------------------------------------------
(* Inventory: amounts of money are in cents, so that a unit cost rounded to two      *)
(* decimals is a whole number                                                        *)

\* handleUpdateStock without the rounding: the average is cut to whole cents
RestockedProductTruncated(p, amount, purchaseCost) ==
    LET newStock == p.stock + amount
        newCostPerUnit ==
            IF amount > 0 /\ purchaseCost > 0 /\ newStock > 0
            THEN (p.stock * p.costPerUnit + purchaseCost) \div newStock
            ELSE p.costPerUnit
    IN [p EXCEPT !.stock = newStock, !.costPerUnit = newCostPerUnit]

\* handleUpdateStock: the product after the update;
\* Math.round(calculatedCost * 100) / 100
RestockedProduct(p, amount, purchaseCost) ==
    LET newStock == p.stock + amount
        newCostPerUnit ==
            IF amount > 0 /\ purchaseCost > 0 /\ newStock > 0
            THEN LET oldInventoryValue == p.stock * p.costPerUnit
                     newInventoryValue == oldInventoryValue + purchaseCost
                 IN RoundDiv(newInventoryValue, newStock)
            ELSE p.costPerUnit
    IN [p EXCEPT !.stock = newStock, !.costPerUnit = newCostPerUnit]

\* an expense for every update that names a purchase cost, whatever the amount
PaidReplenishmentAnyAmount(amount, purchaseCost) == purchaseCost > 0

\* handleUpdateStock: if (purchaseCost > 0 && amount > 0)
PaidReplenishment(amount, purchaseCost) == purchaseCost > 0 /\ amount > 0

\* handleCreateExpense: { ...expenseData, id: `exp-${Date.now()}` }
NewExpense(expenseData, timestamp) == Spread(expenseData, [id |-> "exp-" \o ToString(timestamp)])

\* AddStockModal submit: App.handleUpdateStock(product.id, amount, purchaseCost), which
\* calls handleCreateExpense and addLog; the opening of the modal and its submission
\* are one step
handleUpdateStock(i, amount, purchaseCost) ==
    /\ OnPage
    /\ i \in DOMAIN products
    /\ now < MaxTime
    /\ Tick
    /\ products' = MapSeq(products, LAMBDA p : IF p.id = products[i].id
                                               THEN RestockedProduct(p, amount, purchaseCost)
                                               ELSE p)
    /\ IF PaidReplenishment(amount, purchaseCost)
       THEN /\ expenses' = <<NewExpense([date |-> now',
                                         amount |-> purchaseCost,
                                         category |-> "Inventory"], now')>> \o expenses
            /\ firestore' = WithLog(WithLog(firestore, "Expense Created", now'),
                                    "Stock Updated", now')
       ELSE /\ UNCHANGED expenses
            /\ firestore' = WithLog(firestore, "Stock Updated", now')
    /\ roundTrip' = Null
    /\ history' = Append(history, [op |-> "stock", id |-> products[i].id,
                                    amount |-> amount, purchaseCost |-> purchaseCost,
                                    stock |-> StockOf(products),
                                    stockAfter |-> StockOf(products')])
    /\ UNCHANGED <<clients, orders, ui, alertTitle, selectedOrder, createState, editState, newItem, basePricePerUnit, logs, exported, session>>
    /\ Rerender
    /\ ExitDone

-----------------------------------------------------------------------------
(* Expenses *)

\* CreateExpenseModal.handleSubmit: onAdd({ ...expenseData, amount: parseFloat(amount) || 0 }),
\* then App.handleCreateExpense(expenseData)
handleCreateExpense(amountText) ==
    /\ OnPage
    /\ now < MaxTime
    /\ AddLog("Expense Created")
    /\ expenses' = <<NewExpense([date |-> now',
                                 amount |-> NumberOr0(amountText),
                                 category |-> "Supplies"], now')>> \o expenses
    /\ history' = Append(history, [op |-> "expense created", id |-> expenses'[1].id])
    /\ UNCHANGED <<clients, products, orders, ui, alertTitle, selectedOrder, createState, editState, newItem, basePricePerUnit, roundTrip, logs, exported, session>>
    /\ Rerender
    /\ ExitDone

\* ExpensesPage row click, then EditExpenseModal.handleSubmit with the amount field
\* overwritten: App.handleEditExpense({ ...expense, ...expenseData, amount })
handleEditExpense(i, amountText) ==
    /\ OnPage
    /\ i \in DOMAIN expenses
    /\ now < MaxTime
    /\ AddLog("Expense Updated")
    /\ LET expense == expenses[i]
           expenseData == expense
           updatedExpense == Spread(Spread(expense, expenseData),
                                    [amount |-> NumberOr0(amountText)])
       IN expenses' = MapSeq(expenses, LAMBDA e : IF e.id = updatedExpense.id
                                                  THEN updatedExpense ELSE e)
    /\ history' = Append(history, [op |-> "expense edited", id |-> expenses[i].id])
    /\ UNCHANGED <<clients, products, orders, ui, alertTitle, selectedOrder, createState, editState, newItem, basePricePerUnit, roundTrip, logs, exported, session>>
    /\ Rerender
    /\ ExitDone

\* Delete in the EditExpenseModal and the confirmation: App.handleDeleteExpense with
\* selectedExpense the expense of the row
handleDeleteExpense(i) ==
    /\ OnPage
    /\ i \in DOMAIN expenses
    /\ now < MaxTime
    /\ AddLog("Expense Deleted")
    /\ expenses' = SelectSeq(expenses, LAMBDA e : e.id # expenses[i].id)
    /\ history' = Append(history, [op |-> "expense deleted", id |-> expenses[i].id])
    /\ UNCHANGED <<clients, products, orders, ui, alertTitle, selectedOrder, createState, editState, newItem, basePricePerUnit, roundTrip, logs, exported, session>>
    /\ Rerender
    /\ ExitDone

-----------------------------------------------------------------------------
(* Product edits *)

\* EditProductModal effect: the form state made of the product, numbers as texts
ProductFormOf(product) ==
    [product EXCEPT
        !.stock = Str(@),
        !.costPerUnit = Str(@),
        !.tiers = [k \in DOMAIN @ |-> [sizeLabel |-> @[k].sizeLabel,
                                        quantity |-> Str(@[k].quantity),
                                        price |-> Str(@[k].price)]]]

\* EditProductModal.handleSubmit: the product handed to onSave (parseFloat(text) || 0;
\* the unit cost, in cents, is rounded to two decimals)
SubmittedProduct(productData) ==
    [productData EXCEPT
        !.stock = NumberOr0(@),
        !.costPerUnit = NumberOr0(@),
        !.tiers = [k \in DOMAIN @ |-> [sizeLabel |-> @[k].sizeLabel,
                                        quantity |-> NumberOr0(@[k].quantity),
                                        price |-> NumberOr0(@[k].price)]]]

\* the EditProductModal from its opening to Save Changes: the stock field is left as
\* it is or overwritten with stockText, the first tier is kept or removed; then
\* App.handleEditProduct(updatedProduct)
handleEditProduct(i, stockText, keepTiers) ==
    /\ OnPage
    /\ i \in DOMAIN products
    /\ now < MaxTime
    /\ LET opened == ProductFormOf(products[i])
           typed == [opened EXCEPT !.stock = stockText]
           productData == IF keepTiers \/ typed.tiers = <<>>
                          THEN typed
                          ELSE [typed EXCEPT !.tiers = Tail(@)]
           updatedProduct == SubmittedProduct(productData)
       IN products' = MapSeq(products, LAMBDA p : IF p.id = updatedProduct.id
                                                  THEN updatedProduct
                                                  ELSE p)
    /\ AddLog("Product Updated")
    /\ roundTrip' = Null
    /\ history' = Append(history, [op |-> "product", id |-> products[i].id,
                                    stock |-> StockOf(products),
                                    stockAfter |-> StockOf(products')])
    /\ UNCHANGED <<clients, orders, ui, alertTitle, selectedOrder, createState, editState, newItem, basePricePerUnit, expenses, logs, exported, session>>
    /\ Rerender
    /\ ExitDone

-----------------------------------------------------------------------------
(* Real-time listener *)

\* service.onProductsChange(setProducts): the listener registered at sign-in replaces
\* the product table by the snapshot it is handed, whatever modal is open
ProductsSnapshot(snapshot) ==
    /\ session.listeners > 0
    /\ products' = snapshot
    /\ roundTrip' = Null
    /\ UNCHANGED <<clients, orders, now, ui, alertTitle, selectedOrder, createState, editState, newItem, basePricePerUnit, expenses, logs, firestore, exported, history, session>>
    /\ Rerender
    /\ ExitDone

-----------------------------------------------------------------------------
(* Export and import.  A JSON value is a record with its type; an array carries its *)
(* items.  A time is the pair of its kind and its number: <<"Timestamp", t>> is a    *)
(* Firestore Timestamp, <<"seconds", t>> the plain object JSON.stringify makes of    *)
(* one, <<"iso", t>> a date string, <<"Timestamp(NaN)", 0>> the Timestamp of an      *)
(* Invalid Date.                                                                     *)

Arr(items) == [type |-> "array", items |-> items]

\* the fields of a record that hold a Firestore Timestamp
TimestampFields == {"timestamp", "createdAt", "updatedAt"}

\* JSON.parse(JSON.stringify(record)): Timestamp.toJSON() gives { seconds, nanoseconds }
JsonRecord(r) ==
    [k \in DOMAIN r |-> IF k \in TimestampFields THEN <<"seconds", r[k][2]>> ELSE r[k]]

\* the five collections of the App's state
LocalData == [clients |-> clients, products |-> products, orders |-> orders,
              expenses |-> expenses, logs |-> logs]

\* handleExport('all'): JSON.stringify({ orders, clients, products, expenses, logs })
ExportAll(data) ==
    [parses |-> TRUE, top |-> "object",
     data |-> [k \in Collections |-> Arr(MapSeq(data[k], JsonRecord))]]

\* a file of another account: one product and one log entry
SampleData ==
    [clients |-> Arr(<<>>),
     products |-> Arr(<<[id |-> "p9", stock |-> 5, costPerUnit |-> 100, lastOrdered |-> 0,
                         tiers |-> <<>>]>>),
     orders |-> Arr(<<>>),
     expenses |-> Arr(<<>>),
     logs |-> Arr(<<[id |-> "auto-1", action |-> "Order Created",
                     timestamp |-> <<"seconds", 1>>]>>)]

\* the files the user may pick besides the exported one: text that is not JSON, the
\* JSON text null, a file without the logs key, one whose clients are an object, one
\* whose expenses are null, and two well-formed files
HandMadeFiles ==
    { [parses |-> FALSE, top |-> "none", data |-> <<>>],
      [parses |-> TRUE, top |-> "null", data |-> <<>>],
      [parses |-> TRUE, top |-> "object",
       data |-> [k \in Collections \ {"logs"} |-> SampleData[k]]],
      [parses |-> TRUE, top |-> "object",
       data |-> [SampleData EXCEPT !.clients = [type |-> "object"]]],
      [parses |-> TRUE, top |-> "object",
       data |-> [SampleData EXCEPT !.expenses = [type |-> "null"]]],
      [parses |-> TRUE, top |-> "object", data |-> SampleData],
      [parses |-> TRUE, top |-> "object", data |-> [k \in Collections |-> Arr(<<>>)]] }

ImportFiles == HandMadeFiles \cup (IF exported = Null THEN {} ELSE {exported})

\* a JavaScript value in a condition: null is falsy, arrays and objects are truthy
Truthy(v) == v.type # "null"

\* Array.isArray(v)
IsArray(v) == v.type = "array"

\* handleImportData: data.clients && Array.isArray(data.clients) && ... for the five keys
ValidStructure(file) ==
    \A k \in Collections :
        k \in DOMAIN file.data /\ Truthy(file.data[k]) /\ IsArray(file.data[k])

\* Timestamp.fromDate(new Date(log.timestamp)): anything but a date string gives an
\* Invalid Date
ToTimestamp(t) == IF t[1] = "iso" THEN <<"Timestamp", t[2]>> ELSE <<"Timestamp(NaN)", 0>>

\* migrateLocalData: the documents set in the batch, in the order of the five forEach
MigratedDocs(fs, data, timestamp) ==
    LET stamps == [createdAt |-> <<"Timestamp", timestamp>>,
                   updatedAt |-> <<"Timestamp", timestamp>>]
        c == data.clients.items
        p == data.products.items
        o == data.orders.items
        e == data.expenses.items
        l == data.logs.items
    IN [clients |-> [j \in DOMAIN c |->
                [id |-> NewDocId(fs, j),
                 data |-> Spread(c[j], Spread([name |-> Encrypt(c[j].name)], stamps))]],
        products |-> [j \in DOMAIN p |->
                [id |-> NewDocId(fs, Len(c) + j), data |-> Spread(p[j], stamps)]],
        orders |-> [j \in DOMAIN o |->
                [id |-> NewDocId(fs, Len(c) + Len(p) + j), data |-> Spread(o[j], stamps)]],
        expenses |-> [j \in DOMAIN e |->
                [id |-> NewDocId(fs, Len(c) + Len(p) + Len(o) + j),
                 data |-> Spread(e[j], stamps)]],
        logs |-> [j \in DOMAIN l |->
                [id |-> NewDocId(fs, Len(c) + Len(p) + Len(o) + Len(e) + j),
                 data |-> Spread(l[j], [timestamp |-> ToTimestamp(l[j].timestamp)])]]]

\* FirebaseService.migrateLocalData: every record is set on a new document reference,
\* clients with the name encrypted, all but the logs stamped; the documents in the
\* collections stay (files of up to 400 records: one batch)
Migrated(fs, data, timestamp) ==
    LET added == MigratedDocs(fs, data, timestamp)
    IN [k \in Collections |-> fs[k] \o added[k]]

\* what the SDK does with a Timestamp of an Invalid Date is not in the repository:
\* the write is rejected before the commit, or the commit stores it
CommitOutcomes(data) ==
    IF \E j \in DOMAIN data.logs.items : data.logs.items[j].timestamp[1] # "iso"
    THEN {"committed", "rejected"}
    ELSE {"committed"}

\* SettingsPage export button: App.handleExport('all')
handleExport ==
    /\ OnPage
    /\ now < MaxTime
    /\ exported' = ExportAll(LocalData)
    /\ AddLog("Data Exported")
    /\ history' = Append(history, [op |-> "export", file |-> exported', state |-> LocalData])
    /\ UNCHANGED <<clients, products, orders, ui, alertTitle, selectedOrder, createState, editState, newItem, basePricePerUnit, roundTrip, expenses, logs, session>>
    /\ Rerender
    /\ ExitDone

\* a failed import that leaves an entry in the activity log
RejectImportLogged ==
    /\ ShowAlert("Import Failed")
    /\ AddLog("Import Failed")
    /\ UNCHANGED history

\* handleImportData: catch (error) { showAlert("Import Failed", ...) }
RejectImport ==
    /\ ShowAlert("Import Failed")
    /\ UNCHANGED <<now, firestore, history>>

\* SettingsPage file input: App.handleImportData(file), from FileReader.onload to the
\* alert, the awaited commit included
handleImportData(file) ==
    /\ OnPage
    /\ now < MaxTime
    /\ file \in ImportFiles
    /\ \/ /\ ~file.parses \/ file.top = "null" \/ ~ValidStructure(file)
          /\ RejectImport
       \/ /\ file.parses /\ file.top = "object" /\ ValidStructure(file)
          /\ \E outcome \in CommitOutcomes(file.data) :
                IF outcome = "rejected"
                THEN RejectImport
                ELSE /\ Tick
                     /\ firestore' = WithLog(Migrated(firestore, file.data, now'),
                                             "Data Imported", now')
                     /\ ShowAlert("Import Successful")
                     /\ history' = Append(history, [op |-> "import", file |-> file,
                                                     before |-> firestore])
    /\ UNCHANGED <<clients, products, orders, ui, selectedOrder, createState, editState, newItem, basePricePerUnit, roundTrip, expenses, logs, exported, session>>
    /\ Rerender
    /\ ExitDone

\* what the five queries hand over for the documents fs (the orderBy of the queries
\* is left out: a collection comes in document order)
QueryResults(fs) ==
    [clients |-> MapSeq(fs.clients, ClientRecord),
     products |-> MapSeq(fs.products, DocRecord),
     orders |-> MapSeq(fs.orders, DocRecord),
     expenses |-> MapSeq(fs.expenses, DocRecord),
     logs |-> MapSeq(fs.logs, DocRecord)]

\* service.onClientsChange(setClients): a snapshot of the clients collection arrives
onClientsChange ==
    /\ session.listeners > 0
    /\ clients' = QueryResults(firestore).clients
    /\ roundTrip' = Null
    /\ UNCHANGED <<products, orders, now, ui, alertTitle, selectedOrder, createState, editState, newItem, basePricePerUnit, expenses, logs, firestore, exported, history, session>>
    /\ Rerender
    /\ ExitDone

\* service.onProductsChange(setProducts)
onProductsChange ==
    /\ session.listeners > 0
    /\ products' = QueryResults(firestore).products
    /\ roundTrip' = Null
    /\ UNCHANGED <<clients, orders, now, ui, alertTitle, selectedOrder, createState, editState, newItem, basePricePerUnit, expenses, logs, firestore, exported, history, session>>
    /\ Rerender
    /\ ExitDone

\* service.onOrdersChange(setOrders)
onOrdersChange ==
    /\ session.listeners > 0
    /\ orders' = QueryResults(firestore).orders
    /\ roundTrip' = Null
    /\ UNCHANGED <<clients, products, now, ui, alertTitle, selectedOrder, createState, editState, newItem, basePricePerUnit, expenses, logs, firestore, exported, history, session>>
    /\ Rerender
    /\ ExitDone

\* service.onExpensesChange(setExpenses)
onExpensesChange ==
    /\ session.listeners > 0
    /\ expenses' = QueryResults(firestore).expenses
    /\ roundTrip' = Null
    /\ UNCHANGED <<clients, products, orders, now, ui, alertTitle, selectedOrder, createState, editState, newItem, basePricePerUnit, logs, firestore, exported, history, session>>
    /\ Rerender
    /\ ExitDone

\* service.onLogsChange(setLogs)
onLogsChange ==
    /\ session.listeners > 0
    /\ logs' = QueryResults(firestore).logs
    /\ UNCHANGED <<clients, products, orders, now, ui, alertTitle, selectedOrder, createState, editState, newItem, basePricePerUnit, roundTrip, expenses, firestore, exported, history, session>>
    /\ Rerender
    /\ ExitDone

-----------------------------------------------------------------------------
(* Sign-out and sign-in: the callback of the auth effect *)

\* the five setX([]) of the signed-out branch
NoData == [clients |-> <<>>, products |-> <<>>, orders |-> <<>>, expenses |-> <<>>,
           logs |-> <<>>]

\* ConfirmationModal onConfirm: App.handleLogout, AuthService.signOut, then the
\* callback of onAuthStateChange with no user: setUser(null) and the five setX([]).
\* The unsubscribe functions of the listeners are what the async callback returned
\* at sign-in, a value onAuthStateChanged does not use: the listeners stay.
handleLogout ==
    /\ OnPage
    /\ session.user
    /\ session' = [session EXCEPT !.user = FALSE]
    /\ ui' = "login"
    /\ clients' = NoData.clients
    /\ products' = NoData.products
    /\ orders' = NoData.orders
    /\ expenses' = NoData.expenses
    /\ logs' = NoData.logs
    /\ roundTrip' = Null
    /\ UNCHANGED <<now, alertTitle, selectedOrder, createState, editState, newItem, basePricePerUnit, firestore, exported, history>>
    /\ Rerender
    /\ ExitDone

\* LoginPage sign-in: the callback of onAuthStateChange starts with the user,
\* setUser(firebaseUser), and awaits the five reads of Promise.all
SignIn ==
    /\ ui = "login"
    /\ ~session.user
    /\ session.loads + session.listeners < MaxSignIns
    /\ session' = [session EXCEPT !.user = TRUE, !.loads = @ + 1]
    /\ ui' = "page"
    /\ UNCHANGED <<clients, products, orders, now, alertTitle, selectedOrder, createState, editState, newItem, basePricePerUnit, roundTrip, expenses, logs, firestore, exported, history>>
    /\ Rerender
    /\ ExitDone

\* the five reads of a sign-in callback have resolved: the five setX(data), then the
\* five listeners are registered; the callback does not look at the user again
LoadDone ==
    /\ session.loads > 0
    /\ session' = [session EXCEPT !.loads = @ - 1, !.listeners = @ + 1]
    /\ clients' = QueryResults(firestore).clients
    /\ products' = QueryResults(firestore).products
    /\ orders' = QueryResults(firestore).orders
    /\ expenses' = QueryResults(firestore).expenses
    /\ logs' = QueryResults(firestore).logs
    /\ roundTrip' = Null
    /\ UNCHANGED <<now, ui, alertTitle, selectedOrder, createState, editState, newItem, basePricePerUnit, firestore, exported, history>>
    /\ Rerender
    /\ ExitDone

\* a read of a sign-in callback has failed: the catch branch, showAlert('Error', ...)
LoadFailed ==
    /\ session.loads > 0
    /\ session' = [session EXCEPT !.loads = @ - 1]
    /\ alertTitle' = "Error"
    /\ UNCHANGED <<clients, products, orders, now, ui, selectedOrder, createState, editState, newItem, basePricePerUnit, roundTrip, expenses, logs, firestore, exported, history>>
    /\ Rerender
    /\ ExitDone

\* Firestore ends the listeners of a signed-out client when the rules of the project
\* refuse its reads; whether and when it does is not in the hands of the App
ListenersRefused ==
    /\ ~session.user
    /\ session.listeners > 0
    /\ session' = [session EXCEPT !.listeners = 0]
    /\ UNCHANGED <<clients, products, orders, now, ui, alertTitle, selectedOrder, createState, editState, newItem, basePricePerUnit, roundTrip, expenses, logs, firestore, exported, history>>
    /\ Rerender
    /\ ExitDone

AuthOps ==
    \/ handleLogout
    \/ SignIn
    \/ LoadDone
    \/ LoadFailed
    \/ ListenersRefused
    \/ CloseAlert

-----------------------------------------------------------------------------

\* opening and closing the modals, building the item list, and the three order
\* operations: the part of the program every specification below runs
Core ==
    \/ OpenCreateOrderModal
    \/ \E i \in 1..MaxOrders : OpenEditOrderModal(i)
    \/ CloseOrderModal
    \/ CloseAlert
    \/ \E i \in 1..MaxClients : SelectClient(i)
    \/ \E i \in DOMAIN LoadedProducts : handleProductChange(i)
    \/ handleAddItem
    \/ \E index \in 1..MaxItems : handleRemoveItem(index)
    \/ RejectCreateOrder
    \/ handleCreateOrder
    \/ handleEditOrder
    \/ openDeleteConfirmation
    \/ CloseConfirmation
    \/ handleDeleteOrder

\* the inputs that choose the quantity of an order line
QuantityInputs ==
    \/ \E k \in 1..2 : handleTierClick(k)
    \/ \E text \in QtyTexts : handleNewItemManualChange("quantity", text)

\* a zero or negative quantity, or a negative price, typed into the order line
EdgeInputs ==
    \/ \E text \in EdgeQtyTexts : handleNewItemManualChange("quantity", text)
    \/ \E text \in EdgePriceTexts : handleNewItemManualChange("price", text)

\* the inputs that set amounts of money, payments, and the client operations
MoneyInputs ==
    \/ \E text \in PaidTexts : ChangeAmountPaid(text)
    \/ \E text \in FeeTexts : ChangeFees(text)
    \/ \E text \in DiscountTexts : ChangeDiscount(text)
    \/ \E i \in 1..MaxOrders : handleMarkAsPaid(i)
    \/ \E name \in ClientNames : handleCreateClient(name)
    \/ \E i \in 1..MaxClients, name \in ClientNames : handleEditClient(i, name)

\* snapshots delivered by the Firestore listener
RealTime == \E snapshot \in ServerProducts : ProductsSnapshot(snapshot)

\* the stock updates of the inventory page
Inventory ==
    \E i \in DOMAIN LoadedProducts, amount \in StockAmounts, purchaseCost \in PurchaseCosts :
        handleUpdateStock(i, amount, purchaseCost)

NextStock == Core \/ QuantityInputs

\* further clicks on the button that closed a modal, during its exit animation
RepeatedClicks ==
    \/ handleDeleteOrderAgain
    \/ handleEditOrderAgain

NextRepeat == Core \/ QuantityInputs \/ RepeatedClicks

\* the saves of the EditProductModal
ProductEdits ==
    \E i \in DOMAIN LoadedProducts, keepTiers \in BOOLEAN :
        \E stockText \in {Str(products[i].stock)} \cup ProductStockTexts :
            handleEditProduct(i, stockText, keepTiers)

NextProducts == Core \/ QuantityInputs \/ Inventory \/ ProductEdits

\* the client operations of the clients page
ClientOps ==
    \/ \E name \in ClientNames : handleCreateClient(name)
    \/ \E i \in 1..MaxClients, name \in ClientNames : handleEditClient(i, name)
    \/ \E i \in 1..MaxClients : handleDeleteClient(i)

NextClients == Core \/ QuantityInputs \/ ClientOps

\* the expense operations of the expenses page
ExpenseOps ==
    \/ \E text \in ExpenseAmountTexts : handleCreateExpense(text)
    \/ \E i \in 1..MaxTime, text \in ExpenseAmountTexts : handleEditExpense(i, text)
    \/ \E i \in 1..MaxTime : handleDeleteExpense(i)

NextExpenses == Inventory \/ ExpenseOps

-----------------------------------------------------------------------------
(* Reports page: the two date inputs *)

\* onChange of the "from" input: setDateFrom(e.target.value), then the render
setDateFrom(date) ==
    /\ OnPage
    /\ report' = ReportOf(orders, products, expenses, date, report.dateTo)
    /\ UNCHANGED <<clients, products, orders, now, ui, alertTitle, selectedOrder, createState, editState, newItem, basePricePerUnit, clientDataWithStats, roundTrip, expenses, logs, firestore, exported, history, session>>
    /\ ExitDone

\* onChange of the "to" input: setDateTo(e.target.value), then the render
setDateTo(date) ==
    /\ OnPage
    /\ report' = ReportOf(orders, products, expenses, report.dateFrom, date)
    /\ UNCHANGED <<clients, products, orders, now, ui, alertTitle, selectedOrder, createState, editState, newItem, basePricePerUnit, clientDataWithStats, roundTrip, expenses, logs, firestore, exported, history, session>>
    /\ ExitDone

ReportInputs ==
    \/ \E date \in Dates : setDateFrom(date)
    \/ \E date \in Dates : setDateTo(date)

NextReports == ReportInputs


NextForm == Core \/ QuantityInputs \/ EdgeInputs

NextInventory == Inventory

\* the export and import of the settings page
ImportExport ==
    \/ handleExport
    \/ \E file \in ImportFiles : handleImportData(file)
    \/ CloseAlert

\* the five listeners on the Firestore collections of the account
Listeners ==
    \/ onClientsChange
    \/ onProductsChange
    \/ onOrdersChange
    \/ onExpensesChange
    \/ onLogsChange

NextImport == ImportExport \/ Listeners \/ Inventory

NextAuth == AuthOps \/ Listeners

NextMoney == Core \/ MoneyInputs

NextRT == Core \/ QuantityInputs \/ RealTime

Next == Core \/ QuantityInputs \/ EdgeInputs \/ MoneyInputs \/ RealTime \/ Inventory \/ ProductEdits \/ ClientOps \/ ExpenseOps
        \/ ImportExport \/ Listeners \/ ReportInputs \/ RepeatedClicks \/ AuthOps

\* the whole program
Spec == Init /\ [][Next]_vars

\* one session on its own, with the lines' prices, the fees, the discount and the
\* payment left as the form fills them in
SpecStock == Init /\ [][NextStock]_vars

\* one session on its own, with every line ordered at its product's first tier
SpecMoney == Init /\ [][NextMoney]_vars

\* SpecStock with the product listener delivering snapshots
SpecRT == Init /\ [][NextRT]_vars

\* SpecStock with the edge texts among the inputs of the order line
SpecForm == Init /\ [][NextForm]_vars

\* SpecStock with the stock updates and the product edits of the inventory page
SpecProducts == Init /\ [][NextProducts]_vars

\* SpecStock with the creation, edit and deletion of clients
SpecClients == Init /\ [][NextClients]_vars

\* the stock updates with the expense operations
SpecExpenses == Init /\ [][NextExpenses]_vars

\* the reports page on its own, over the collections it may be handed
SpecReports == InitReports /\ [][NextReports]_vars

\* SpecStock from the later point of a session
SpecIds == InitSecondOrder /\ [][NextStock]_vars

\* SpecStock with the further clicks on a closing modal
SpecRepeat == Init /\ [][NextRepeat]_vars

\* sign-out and sign-in, with the listeners
SpecAuth == Init /\ [][NextAuth]_vars

\* the inventory page on its own
SpecInventory == Init /\ [][NextInventory]_vars

\* export, import and the listeners that bring the imported documents to the App
SpecImport == Init /\ [][NextImport]_vars

-----------------------------------------------------------------------------
(* Order invariants *)

\* C1: every stored order's total is exactly the sum of its items' prices plus its
\* fees minus its discount, whatever creations, edits and mark-as-paid came before
C1_TotalIsItemsPlusFeesMinusDiscount ==
    \A i \in DOMAIN orders :
        LET o == orders[i]
        IN o.total = SumOf(o.items, LAMBDA item : item.price) + o.fees - o.discount

\* an order of two lines saved with fees and with a discount
C1_OrderWithFeesAndDiscount ==
    \E i \in DOMAIN orders :
        /\ Len(orders[i].items) = 2
        /\ orders[i].fees > 0
        /\ orders[i].discount > 0

\* C2: every stored order is Completed exactly when its amountPaid is at least its
\* total, and Unpaid otherwise
C2_CompletedIffPaidInFull ==
    \A i \in DOMAIN orders :
        LET o == orders[i]
        IN /\ o.status \in {"Completed", "Unpaid"}
           /\ (o.status = "Completed") <=> (o.amountPaid >= o.total)

\* an order marked as paid next to an order created with a part payment
C2_PaidAndPartPaidOrders ==
    \E i, j \in DOMAIN orders :
        /\ orders[i].status = "Completed"
        /\ orders[i].total > 0
        /\ orders[i].amountPaid = orders[i].total
        /\ orders[j].status = "Unpaid"
        /\ orders[j].amountPaid > 0

-----------------------------------------------------------------------------
(* Client statistics are views *)

\* the orders of a client, counted and summed from the order collection
OrdersOfClient(id) == {i \in DOMAIN orders : orders[i].clientId = id}

SumOver(S, F(_)) ==
    LET sum[T \in SUBSET S] ==
            IF T = {} THEN 0
            ELSE LET x == CHOOSE y \in T : TRUE
                 IN F(x) + sum[T \ {x}]
    IN sum[S]

\* C3: in every state the rows shown for the clients carry, client by client, the
\* number of the client's current orders, the sum of their totals and that sum minus
\* the sum of the amounts paid, never the copies stored on the client
C3_ClientStatsAreFreshFold ==
    /\ Len(clientDataWithStats) = Len(clients)
    /\ \A i \in DOMAIN clients :
          LET row == clientDataWithStats[i]
              mine == OrdersOfClient(clients[i].id)
              spent == SumOver(mine, LAMBDA k : orders[k].total)
              paid == SumOver(mine, LAMBDA k : orders[k].amountPaid)
          IN /\ row.id = clients[i].id
             /\ row.name = clients[i].name
             /\ row.orders = Cardinality(mine)
             /\ row.totalSpent = spent
             /\ row.balance = spent - paid

\* a client saved by handleEditClient with the statistics of that moment, whose
\* orders have changed since
C3_StaleStoredCopy ==
    \E i \in DOMAIN clients :
        /\ clients[i].orders > 0
        /\ clients[i].orders # clientDataWithStats[i].orders
        /\ clients[i].totalSpent # clientDataWithStats[i].totalSpent

-----------------------------------------------------------------------------
(* Stock reconciliation *)

\* the product is referenced by an item of the list
Referenced(items, pid) == \E k \in DOMAIN items : items[k].productId = pid

\* C4: creating an order lowers each product's stock by the sum of the quantities of
\* all the order's items of that product, stamps the products of the order with the
\* time of the operation and leaves the other products as they are
C4_CreateDeductsEveryLine ==
    [][handleCreateOrder =>
          /\ Len(products') = Len(products)
          /\ \A i \in DOMAIN products :
                LET p == products[i]
                IN IF Referenced(createState.items, p.id)
                   THEN /\ products'[i].stock = p.stock - QtyOf(createState.items, p.id)
                        /\ products'[i].lastOrdered = now'
                   ELSE products'[i] = p]_vars

\* an order of two lines for one product has just been created and the stock is
\* lower by the first line only
C4_SecondLineNotDeducted ==
    /\ roundTrip # Null
    /\ ~roundTrip.deleted
    /\ \E i \in DOMAIN products :
          LET items == roundTrip.order.items
          IN /\ Len(items) = 2
             /\ items[1].productId = products[i].id
             /\ items[2].productId = products[i].id
             /\ products[i].stock = roundTrip.stock[i] - items[1].quantity

C6_CreateKeepsStockNonNegative ==
    [][(handleCreateOrder /\ \A i \in DOMAIN products : products[i].stock >= 0)
       => \A i \in DOMAIN products : products'[i].stock >= 0]_vars

\* an order has just been created from stock that was nowhere negative, and a
\* product is left with negative stock
C6_NegativeStockAfterCreate ==
    /\ roundTrip # Null
    /\ ~roundTrip.deleted
    /\ \A i \in DOMAIN roundTrip.stock : roundTrip.stock[i] >= 0
    /\ \E i \in DOMAIN products : products[i].stock < 0

\* C7: saving an edited order changes each product's stock by the quantity the
\* original items return minus the quantity the updated items consume, in one pass;
\* it stamps exactly the products of the updated list and leaves the products of
\* neither list as they are
C7_EditAppliesCoalescedDelta ==
    [][handleEditOrder =>
          /\ \E k \in DOMAIN orders : orders[k] = selectedOrder
          /\ Len(products') = Len(products)
          /\ \A i \in DOMAIN products :
                LET p == products[i]
                    returned == QtyOf(selectedOrder.items, p.id)
                    consumed == QtyOf(editState.items, p.id)
                IN /\ products'[i] = [p EXCEPT
                          !.stock = p.stock + returned - consumed,
                          !.lastOrdered = IF Referenced(editState.items, p.id)
                                          THEN now' ELSE p.lastOrdered]
                   /\ (~Referenced(selectedOrder.items, p.id)
                       /\ ~Referenced(editState.items, p.id)) => products'[i] = p]_vars

\* an order has been edited: it now holds more of the first product than the order
\* that was opened, and a line of the second product as well
C7_EditedOrder ==
    /\ ui = "page"
    /\ selectedOrder # Null
    /\ \E k \in DOMAIN orders :
          /\ orders[k].id = selectedOrder.id
          /\ QtyOf(selectedOrder.items, "p1") > 0
          /\ QtyOf(orders[k].items, "p1") > QtyOf(selectedOrder.items, "p1")
          /\ QtyOf(orders[k].items, "p2") > 0

\* the updated items of the open edit form need more of a product than its stock
\* plus what the original order returns
Overdrawn ==
    \E i \in DOMAIN products :
        QtyOf(editState.items, products[i].id) >
            products[i].stock + QtyOf(selectedOrder.items, products[i].id)

\* C8: an edit whose updated items need more of a product than its stock plus the
\* quantity the original order returns is refused with an alert, and neither the
\* orders nor the stock change
C8_OverdrawnEditRejected ==
    [][(handleEditOrder /\ Overdrawn)
       => /\ alertTitle' # ""
          /\ UNCHANGED <<orders, products>>]_vars

\* an edit has been saved and a product is left with negative stock
C8_NegativeStockAfterEdit ==
    /\ ui = "page"
    /\ selectedOrder # Null
    /\ \E k \in DOMAIN orders :
          /\ orders[k].id = selectedOrder.id
          /\ orders[k].items # selectedOrder.items
    /\ \E i \in DOMAIN products : products[i].stock < 0

\* C9: deleting an order removes it from the collection and raises each product's
\* stock by the sum of the quantities of all the order's items of that product
C9_DeleteReturnsEveryLine ==
    [][handleDeleteOrder =>
          /\ \A k \in DOMAIN orders' : orders'[k].id # selectedOrder.id
          /\ Len(products') = Len(products)
          /\ \A i \in DOMAIN products :
                products'[i] = [products[i] EXCEPT
                    !.stock = @ + QtyOf(selectedOrder.items, products[i].id)]]_vars

\* an order of two lines for one product has been deleted and the stock is that of
\* before its creation, which lowered it by the first line only
C9_SecondLineNotReturned ==
    /\ roundTrip # Null
    /\ roundTrip.deleted
    /\ \E i \in DOMAIN products :
          LET items == roundTrip.order.items
          IN /\ Len(items) = 2
             /\ items[1].productId = products[i].id
             /\ items[2].productId = products[i].id
             /\ products[i].stock = roundTrip.stock[i]

\* C10: once an order has been created and deleted straight away, every product
\* has the stock it had before the creation, and the order is gone
C10_CreateThenDeleteRestoresStock ==
    (roundTrip # Null /\ roundTrip.deleted) =>
        /\ StockOf(products) = roundTrip.stock
        /\ \A k \in DOMAIN orders : orders[k] # roundTrip.order

\* an order with a line of each product has been created and deleted straight away
C10_RoundTripDone ==
    /\ roundTrip # Null
    /\ roundTrip.deleted
    /\ Referenced(roundTrip.order.items, "p1")
    /\ Referenced(roundTrip.order.items, "p2")

-----------------------------------------------------------------------------
(* Edit round trip *)

\* two item lists holding the same quantity of every product
SameQuantities(a, b) ==
    \A i \in DOMAIN LoadedProducts :
        QtyOf(a, LoadedProducts[i].id) = QtyOf(b, LoadedProducts[i].id)

\* operation k of the history edits an order from A to B and operation k + 1 edits
\* the same order back from B to A
EditedThereAndBack(k) ==
    /\ history[k].op = "edit"
    /\ history[k + 1].op = "edit"
    /\ history[k + 1].id = history[k].id
    /\ history[k + 1].before = history[k].after
    /\ SameQuantities(history[k + 1].after, history[k].before)

\* C11: when an order is edited from item set A to item set B and then back from B
\* to A, every product's stock after the second edit is its stock before the first
C11_EditBackRestoresStock ==
    \A k \in 1..(Len(history) - 1) :
        EditedThereAndBack(k) => history[k + 1].stockAfter = history[k].stock

\* an order has been edited to other quantities of both products and back, and the
\* stock shown is the one the second edit left
C11_EditedThereAndBack ==
    /\ Len(history) = 2
    /\ EditedThereAndBack(1)
    /\ QtyOf(history[1].before, "p1") # QtyOf(history[1].after, "p1")
    /\ QtyOf(history[1].before, "p2") # QtyOf(history[1].after, "p2")
    /\ StockOf(products) = history[2].stockAfter

-----------------------------------------------------------------------------
(* Stock updates *)

\* r is num / den rounded to the nearest whole number, halves upwards (den > 0)
IsRounded(r, num, den) == 2 * den * r - den <= 2 * num /\ 2 * num < 2 * den * r + den

\* C12: a stock update by addedQuantity with purchaseCost sets the stock to stock +
\* addedQuantity; when addedQuantity > 0, purchaseCost > 0 and the new stock > 0 the
\* unit cost becomes (old stock x old unit cost + purchaseCost) / new stock rounded to
\* two decimals, and in every other case the unit cost is unchanged
C12_WeightedAverageCost ==
    [][\A i \in DOMAIN LoadedProducts, amount \in StockAmounts, purchaseCost \in PurchaseCosts :
          handleUpdateStock(i, amount, purchaseCost) =>
              LET p == products[i]
                  q == products'[i]
              IN /\ q.stock = p.stock + amount
                 /\ IF amount > 0 /\ purchaseCost > 0 /\ q.stock > 0
                    THEN IsRounded(q.costPerUnit,
                                   p.stock * p.costPerUnit + purchaseCost, q.stock)
                    ELSE q.costPerUnit = p.costPerUnit
                 /\ q = [p EXCEPT !.stock = q.stock, !.costPerUnit = q.costPerUnit]
                 /\ \A j \in DOMAIN products : j # i => products'[j] = products[j]]_vars

\* a product with stock 10 and unit cost 2.00 has been replenished by 10 units bought
\* for 40.00: its stock is 20 and its unit cost 3.00
C12_TenMoreForForty ==
    /\ Len(history) = 2
    /\ history[2].op = "stock"
    /\ history[2].amount = 10
    /\ history[2].purchaseCost = 4000
    /\ \E i \in DOMAIN products :
          /\ products[i].id = history[2].id
          /\ history[2].stock[i] = 10
          /\ products[i].stock = 20
          /\ products[i].costPerUnit = 300

\* C13: a stock update creates exactly one expense, of amount purchaseCost and
\* category Inventory, when purchaseCost > 0 and addedQuantity > 0, and none
\* otherwise; the expense is there in the state the update leaves
C13_ExpenseIffPaidReplenishment ==
    [][\A i \in DOMAIN LoadedProducts, amount \in StockAmounts, purchaseCost \in PurchaseCosts :
          handleUpdateStock(i, amount, purchaseCost) =>
              IF purchaseCost > 0 /\ amount > 0
              THEN /\ Len(expenses') = Len(expenses) + 1
                   /\ expenses'[1].amount = purchaseCost
                   /\ expenses'[1].category = "Inventory"
                   /\ \A k \in DOMAIN expenses : expenses'[k + 1] = expenses[k]
              ELSE expenses' = expenses]_vars

\* two stock updates, a paid replenishment and a removal that names a cost, have
\* left one expense
C13_OneExpenseOfTwoUpdates ==
    /\ Len(history) = 2
    /\ \E a, b \in 1..2 :
          /\ history[a].op = "stock" /\ history[a].amount > 0 /\ history[a].purchaseCost > 0
          /\ history[b].op = "stock" /\ history[b].amount < 0 /\ history[b].purchaseCost > 0
    /\ Len(expenses) = 1
    /\ expenses[1].amount = 4000
    /\ expenses[1].category = "Inventory"

-----------------------------------------------------------------------------
(* Order and stock changes as one unit *)

OrderOps == {"create", "edit", "delete"}

\* the order collection shows the change the operation h made
OrderChangePresent(h) ==
    IF h.op = "delete"
    THEN \A i \in DOMAIN orders : orders[i].id # h.id
    ELSE \E i \in DOMAIN orders : orders[i].id = h.id /\ orders[i].items = h.after

\* the product stock shows the change the operation h made
StockChangePresent(h) == StockOf(products) = h.stockAfter

\* the latest operation is an order operation that changed the stock
LastOrderOpChangedStock ==
    /\ Len(history) > 0
    /\ history[Len(history)].op \in OrderOps
    /\ history[Len(history)].stock # history[Len(history)].stockAfter

\* C14: order create, edit and delete apply their change to the orders and their
\* change to the product stock as one unit: in no reachable state, snapshot deliveries
\* for a single collection included, is the order change of the latest operation
\* present without its stock change, or the stock change without the order change
C14_OrderAndStockChangeTogether ==
    LastOrderOpChangedStock =>
        (OrderChangePresent(history[Len(history)]) <=> StockChangePresent(history[Len(history)]))

\* a created order is in the list while the stock is what it was before the creation
C14_OrderCreatedStockReverted ==
    /\ LastOrderOpChangedStock
    /\ history[Len(history)].op = "create"
    /\ OrderChangePresent(history[Len(history)])
    /\ StockOf(products) = history[Len(history)].stock

-----------------------------------------------------------------------------
(* Import and export *)

\* the file is not JSON, or one of the five keys is missing or is not an array
Malformed(file) ==
    \/ ~file.parses
    \/ file.top # "object"
    \/ \E k \in Collections : k \notin DOMAIN file.data \/ file.data[k].type # "array"

\* C15: an import whose source cannot be parsed, or in which one of the keys clients,
\* products, orders, expenses, logs is missing or is not an array, is rejected with an
\* error message and changes nothing: no document is written and the five collections
\* are unchanged
C15_MalformedImportRejected ==
    [][\A file \in HandMadeFiles :
          (Malformed(file) /\ handleImportData(file)) =>
              /\ alertTitle' = "Import Failed"
              /\ firestore' = firestore
              /\ LocalData' = LocalData]_vars

\* a malformed file has been rejected in a session that had written to the account
\* before
C15_RejectedAfterActivity ==
    /\ alertTitle = "Import Failed"
    /\ Len(firestore.logs) > 0
    /\ Len(expenses) > 0

\* the latest operation is a successful import, and the listeners have delivered the
\* documents of every collection
ImportDelivered ==
    /\ Len(history) > 0
    /\ history[Len(history)].op = "import"
    /\ LocalData = QueryResults(firestore)

IdsOf(records) == {records[i].id : i \in DOMAIN records}

\* C16: a successful import replaces the whole data set: afterwards each collection
\* holds exactly the imported records and none of the records that were there before
\* (the log entry of the import itself is allowed for)
C16_ImportReplacesDataSet ==
    ImportDelivered =>
        LET h == history[Len(history)]
        IN \A k \in Collections :
              /\ k # "logs" => Len(LocalData[k]) = Len(h.file.data[k].items)
              /\ \A j \in DOMAIN h.before[k] : h.before[k][j].id \notin IdsOf(LocalData[k])

\* after the import of a file with one product the App shows three products, the two
\* of before among them, and the client of before
C16_OldRecordsKept ==
    /\ ImportDelivered
    /\ Len(history[Len(history)].file.data.products.items) = 1
    /\ Len(products) = 3
    /\ {"p1", "p2"} \subseteq IdsOf(products)
    /\ "c-0" \in IdsOf(clients)

\* the latest two operations are an export and the successful import of the exported
\* file, and the listeners have delivered the documents of every collection
RoundTripDelivered ==
    /\ Len(history) >= 2
    /\ history[Len(history) - 1].op = "export"
    /\ history[Len(history)].op = "import"
    /\ history[Len(history)].file = history[Len(history) - 1].file
    /\ LocalData = QueryResults(firestore)

SetOf(records) == {records[i] : i \in DOMAIN records}

\* C17: importing the export of a snapshot gives the same snapshot: each of the five
\* collections holds the same records, identifiers and references included
C17_ImportOfExportIsSameSnapshot ==
    RoundTripDelivered =>
        \A k \in Collections :
            SetOf(LocalData[k]) = SetOf(history[Len(history) - 1].state[k])

\* the same for the four collections that hold no log entries
C17_SameSnapshotButLogs ==
    RoundTripDelivered =>
        \A k \in Collections \ {"logs"} :
            SetOf(LocalData[k]) = SetOf(history[Len(history) - 1].state[k])

\* after the round trip the exported client is there twice, once under a new id
C17_ClientTwice ==
    /\ RoundTripDelivered
    /\ Len(history[Len(history) - 1].state.clients) = 1
    /\ Len(clients) = 2
    /\ clients[1].id = "c-0"
    /\ clients[2].id # "c-0"
    /\ clients[2].name = clients[1].name

-----------------------------------------------------------------------------
(* Order lines *)

\* no tier of the product has the quantity q
MatchesNoTier(product, q) ==
    \A k \in DOMAIN product.tiers : product.tiers[k].quantity # q

\* price is q times the unit price of a smallest tier of positive quantity, rounded
IsBasePriced(price, product, q) ==
    \E k \in DOMAIN product.tiers :
        /\ product.tiers[k].quantity > 0
        /\ \A j \in DOMAIN product.tiers :
              product.tiers[j].quantity > 0 =>
                  product.tiers[k].quantity <= product.tiers[j].quantity
        /\ IsRounded(price, q * product.tiers[k].price, product.tiers[k].quantity)

\* a quantity that matches no tier is typed for the selected product: the line in the
\* form gets the base-priced price and the tier label "custom"; such a line is added
\* to the order: the order line has the quantity, a base-priced price and the size
\* label given
CustomLineResolved(label) ==
    /\ \A q \in QtyTexts :
          (/\ handleNewItemManualChange("quantity", q)
           /\ newItem.productId # ""
           /\ MatchesNoTier(ProductById(newItem.productId), q[1]))
          => /\ newItem'.quantity = q
             /\ IsBasePriced(newItem'.price[1], ProductById(newItem.productId), q[1])
             /\ newItem'.selectedTierLabel = "custom"
    /\ (/\ handleAddItem
        /\ Len(ActiveForm'.items) = Len(ActiveForm.items) + 1
        /\ MatchesNoTier(ProductById(newItem.productId), newItem.quantity[1]))
       => LET line == ActiveForm'.items[Len(ActiveForm'.items)]
          IN /\ line.quantity = newItem.quantity[1]
             /\ IsBasePriced(line.price, ProductById(newItem.productId), line.quantity)
             /\ line.sizeLabel = label

C19_StoredLinesPositive ==
    \A i \in DOMAIN orders : \A k \in DOMAIN orders[i].items :
        orders[i].items[k].quantity > 0 /\ orders[i].items[k].price >= 0

\* an order holding a line of quantity 0 has been created
C19_ZeroQuantityStored ==
    /\ Len(history) > 0
    /\ history[Len(history)].op = "create"
    /\ \E i \in DOMAIN orders :
          /\ orders[i].id = history[Len(history)].id
          /\ \E k \in DOMAIN orders[i].items : orders[i].items[k].quantity = 0

\* C20: an order with no client or with an empty item list is never stored, whether
\* it is submitted from the create form or from the edit form
C20_StoredOrdersHaveClientAndItems ==
    \A i \in DOMAIN orders : orders[i].clientId # "" /\ orders[i].items # <<>>

\* the edit form has been saved with every line removed, and the order is stored with
\* no items
C20_EditedToNoItems ==
    /\ Len(history) > 0
    /\ history[Len(history)].op = "edit"
    /\ history[Len(history)].before # <<>>
    /\ history[Len(history)].after = <<>>
    /\ \E i \in DOMAIN orders :
          orders[i].id = history[Len(history)].id /\ orders[i].items = <<>>

-----------------------------------------------------------------------------
(* What changes stock and tiers *)

\* the step is an order creation, edit or deletion, or a stock update
ReconciliationOrStockUpdate ==
    /\ Len(history') = Len(history) + 1
    /\ history'[Len(history')].op \in OrderOps \cup {"stock"}

\* C21: a product's stock changes only through order create/edit/delete or through
\* the stock update; saving a product edit leaves the product's stock unchanged, and
\* order operations and stock updates leave every product's tiers unchanged
C21_StockChangesByReconciliationOnly ==
    [][\A i \in DOMAIN products :
          /\ products'[i].stock # products[i].stock => ReconciliationOrStockUpdate
          /\ ReconciliationOrStockUpdate => products'[i].tiers = products[i].tiers]_vars

\* a product edit has been saved with another number in the stock field, and the
\* product's stock is that number
C21_StockSetByProductEdit ==
    /\ Len(history) > 0
    /\ history[Len(history)].op = "product"
    /\ history[Len(history)].stock # history[Len(history)].stockAfter
    /\ StockOf(products) = history[Len(history)].stockAfter
    /\ \E i \in DOMAIN products :
          products[i].id = history[Len(history)].id /\ products[i].stock = 7

\* order operations and stock updates leave the tiers as they are
C21_TiersKeptByOrdersAndStockUpdates ==
    [][\A i \in DOMAIN products :
          ReconciliationOrStockUpdate => products'[i].tiers = products[i].tiers]_vars

-----------------------------------------------------------------------------
(* Clients *)

\* the display numbers assigned before the k-th operation of the history: those of
\* the loaded clients and those of the clients created by earlier operations
AssignedBefore(k) ==
    {LoadedClients[i].displayId : i \in DOMAIN LoadedClients}
        \cup {history[j].displayId : j \in {m \in 1..(k - 1) : history[m].op = "client created"}}

\* C22: client display numbers are unique and monotonically assigned: no two clients
\* share a number, and the number of each newly created client is greater than every
\* number assigned before it
C22_DisplayNumbersUniqueAndNeverReused ==
    /\ \A i, j \in DOMAIN clients : clients[i].displayId = clients[j].displayId => i = j
    /\ \A k \in DOMAIN history :
          history[k].op = "client created" =>
              \A n \in AssignedBefore(k) : history[k].displayId > n

\* the same without the monotonicity: no two clients share a display number
C22_DisplayNumbersUnique ==
    \A i, j \in DOMAIN clients : clients[i].displayId = clients[j].displayId => i = j

\* the loaded client, number 1, has been deleted and the client created after that
\* has number 1
C22_NumberReused ==
    /\ Len(history) = 2
    /\ history[1].op = "client deleted"
    /\ history[1].displayId = 1
    /\ history[2].op = "client created"
    /\ \E i \in DOMAIN clients : clients[i].id = history[2].id /\ clients[i].displayId = 1

\* every stored order names a client of the client collection
OrdersHaveClients ==
    \A k \in DOMAIN orders : \E i \in DOMAIN clients : clients[i].id = orders[k].clientId

-----------------------------------------------------------------------------
(* Expenses and the activity log *)

\* C23: once created, by a user action or by a paid stock replenishment, an expense
\* is never modified or removed by an operation (the data wipe and the restore are
\* not among the operations of the specification)
C23_ExpensesKept ==
    [][\A k \in DOMAIN expenses : \E j \in DOMAIN expenses' : expenses'[j] = expenses[k]]_vars

\* the expense of a replenishment paid 40.00 has been edited to 25.00
C23_ReplenishmentExpenseEdited ==
    /\ Len(history) = 2
    /\ history[1].op = "stock"
    /\ history[1].purchaseCost = 4000
    /\ history[2].op = "expense edited"
    /\ Len(expenses) = 1
    /\ expenses[1].id = history[2].id
    /\ expenses[1].category = "Inventory"
    /\ expenses[1].amount = 2500

\* the expense of a paid replenishment has been deleted
C23_ReplenishmentExpenseDeleted ==
    /\ Len(history) = 2
    /\ history[1].op = "stock"
    /\ history[1].purchaseCost > 0
    /\ history[1].amount > 0
    /\ history[2].op = "expense deleted"
    /\ expenses = <<>>

\* C24: the activity log is append-only: across the operations (the data wipe is not
\* among those of the specification) every log entry once present stays present and
\* unchanged, in the stored log and in the list the App shows, and operations only
\* add entries
C24_LogAppendOnly ==
    [][/\ Len(firestore'.logs) >= Len(firestore.logs)
       /\ \A k \in DOMAIN firestore.logs : firestore'.logs[k] = firestore.logs[k]
       /\ \A k \in DOMAIN logs : \E j \in DOMAIN logs' : logs'[j] = logs[k]]_vars

\* the App shows the entries of a stock update and of an import, the entry the
\* imported file held among them
C24_LogOfUpdateAndImport ==
    /\ Len(history) = 2
    /\ history[1].op = "stock"
    /\ history[2].op = "import"
    /\ Len(history[2].file.data.logs.items) = 1
    /\ logs = QueryResults(firestore).logs
    /\ Len(logs) >= 3
    /\ \E k \in DOMAIN logs : logs[k].action = "Stock Updated"
    /\ \E k \in DOMAIN logs : logs[k].action = "Data Imported"

-----------------------------------------------------------------------------
(* C25 *)

\* the orders and the expenses inside the window the reports page shows
OrdersInWindow ==
    {i \in DOMAIN orders :
        /\ report.dateFrom = NoDate \/ orders[i].date >= report.dateFrom
        /\ report.dateTo = NoDate \/ orders[i].date <= report.dateTo}

ExpensesInWindow ==
    {i \in DOMAIN expenses :
        /\ report.dateFrom = NoDate \/ expenses[i].date >= report.dateFrom
        /\ report.dateTo = NoDate \/ expenses[i].date <= report.dateTo}

\* quantity x unit cost of the product of line k of order i, 0 when there is none
LineCost(i, k) ==
    LET item == orders[i].items[k]
        matched == {j \in DOMAIN products : products[j].id = item.productId}
    IN IF matched = {} THEN 0
       ELSE item.quantity * products[CHOOSE j \in matched : \A h \in matched : j <= h].costPerUnit

WindowRevenue == SumOver(OrdersInWindow, LAMBDA i : orders[i].total)

WindowCost ==
    SumOver({<<i, k>> \in (DOMAIN orders) \X (1..3) : i \in OrdersInWindow /\ k \in DOMAIN orders[i].items},
            LAMBDA ik : LineCost(ik[1], ik[2]))

WindowExpenses == SumOver(ExpensesInWindow, LAMBDA i : expenses[i].amount)

\* C25: for the orders and expenses inside the selected date window, revenue is the sum
\* of the orders' totals, cost the sum over their lines of quantity x the unit cost of
\* the matched product (0 for a line whose product is not found), profit is revenue
\* minus cost and net income is profit minus the sum of the expenses' amounts
C25_ReportStatsOfWindow ==
    /\ report.stats.totalRevenue = WindowRevenue
    /\ report.stats.totalProfit = WindowRevenue - WindowCost
    /\ report.stats.totalExpenses = WindowExpenses
    /\ report.stats.netIncome = (WindowRevenue - WindowCost) - WindowExpenses

\* the example of the claim: the window holds a single order of total 100 whose matched
\* lines cost 60 and no expense, and the page shows profit 40 and net income 40
C25_SingleOrderProfitForty ==
    /\ report.dateFrom # NoDate
    /\ Cardinality(OrdersInWindow) = 1
    /\ Len(orders) > 1
    /\ ExpensesInWindow = {} /\ expenses # <<>>
    /\ WindowRevenue = 100 /\ WindowCost = 60
    /\ report.stats.totalProfit = 40
    /\ report.stats.netIncome = 40

-----------------------------------------------------------------------------
(* C26 *)

\* C26: order identifiers are unique: no two orders of the order collection have the
\* same id
C26_OrderIdsUnique ==
    \A i, j \in DOMAIN orders : i # j => orders[i].id # orders[j].id

\* an order was created while the second order was stored alone, and the collection
\* holds two orders of id "ord-2"
C26_TwoOrdersOfOneId ==
    /\ Len(history) = 1 /\ history[1].op = "create" /\ history[1].id = "ord-2"
    /\ Len(orders) = 2
    /\ orders[1].id = "ord-2" /\ orders[2].id = "ord-2"

-----------------------------------------------------------------------------
(* C27 *)

\* per product, the stock plus the product's quantities over all the lines of all
\* the stored orders
StockPlusOrdered(prods, os) ==
    [i \in DOMAIN prods |->
        prods[i].stock + SumOf(os, LAMBDA o : QtyOf(o.items, prods[i].id))]

\* C27: for every product, the stock plus the product's quantities over the lines of
\* the stored orders is left unchanged by every order create, edit and delete, also
\* for orders that hold several lines of one product: a step changes it only if it
\* is a stock update or a product edit
C27_StockPlusOrderedConserved ==
    [][StockPlusOrdered(products', orders') # StockPlusOrdered(products, orders)
          => /\ Len(history') = Len(history) + 1
             /\ history'[Len(history')].op \in {"stock", "product"}]_vars

\* the last operation created an order of two lines of one product, and the stock of
\* the product went down by less than the quantity the order holds
C27_CreatedOrderHoldsMoreThanDeducted ==
    /\ history # <<>>
    /\ history[Len(history)].op = "create"
    /\ orders # <<>>
    /\ orders[1].id = history[Len(history)].id
    /\ \E i \in DOMAIN products :
          LET h == history[Len(history)]
          IN /\ Len(h.after) = 2
             /\ h.after[1].productId = products[i].id
             /\ h.after[2].productId = products[i].id
             /\ h.stock[i] - h.stockAfter[i] < QtyOf(orders[1].items, products[i].id)

-----------------------------------------------------------------------------
(* C28 *)

\* no stored order has the id
Gone(id) == \A k \in DOMAIN orders : orders[k].id # id

\* C28: an order's stock is returned at most once: an order deletion invoked for an
\* order that is no longer in the order collection (a repeated confirmation of the
\* same delete) leaves every product's stock unchanged, and a second save of an edit
\* from the same original version leaves it unchanged too, the delta having been
\* applied by the first
C28_StockReturnedAtMostOnce ==
    [][/\ (handleDeleteOrderAgain /\ Gone(exiting.order.id))
              => StockOf(products') = StockOf(products)
       /\ handleEditOrderAgain => StockOf(products') = StockOf(products)]_vars

\* the last two operations deleted the same order, which had gone by the second, and
\* the second raised the stock again
C28_StockReturnedTwice ==
    /\ Len(history) >= 2
    /\ history[Len(history)].op = "delete"
    /\ history[Len(history) - 1].op = "delete"
    /\ history[Len(history)].id = history[Len(history) - 1].id
    /\ \E i \in DOMAIN products :
          /\ history[Len(history) - 1].stockAfter[i] > history[Len(history) - 1].stock[i]
          /\ history[Len(history)].stockAfter[i] > history[Len(history)].stock[i]
          /\ products[i].stock = history[Len(history)].stockAfter[i]

\* the second half of C28 on its own
C28_SecondSaveKeepsStock ==
    [][handleEditOrderAgain => StockOf(products') = StockOf(products)]_vars

-----------------------------------------------------------------------------
(* C30 *)

\* the five collections the App holds are empty
CollectionsEmpty ==
    /\ clients = <<>>
    /\ products = <<>>
    /\ orders = <<>>
    /\ expenses = <<>>
    /\ logs = <<>>

\* C30: while signed out the five collections are empty and no listener registered
\* at a sign-in is left, so that no snapshot repopulates them before the next
\* sign-in; at most one set of listeners is active at any time
C30_SignedOutEmptyAndOneListenerSet ==
    /\ ~session.user => CollectionsEmpty
    /\ ~session.user => session.listeners = 0
    /\ session.listeners <= 1

\* signed out, with a collection filled again by a listener that was never
\* unsubscribed
C30_RepopulatedAfterSignOut ==
    /\ ~session.user
    /\ session.loads = 0
    /\ session.listeners > 0
    /\ products # <<>>

\* a second sign-in has registered its listeners while those of the first are left
C30_TwoListenerSets == session.user /\ session.listeners = 2

====
